---- MODULE Spec2Model ----
(***************************************************************************)
(* Triple-AI core of ironrange50/Core: the routing catalog cache and the   *)
(* label/keyword auto-router (maintenance-unified-routes_(1)_1766834118492 *)
(* .ts, lines 350-690), the model executor and orchestration entry point   *)
(* (heart-ai_1766878461646.ts, lines 850-1175) and the knowledge fusion    *)
(* algorithms (algorithms_1766878040055.ts).                               *)
(*                                                                         *)
(* Conventions.  A JavaScript string is a sequence of one-character        *)
(* strings, so that toLowerCase, split(/\W+/) and includes are computed.   *)
(* Identifiers (id, nodeId, stackId) are positive integers and 0 stands    *)
(* for the empty string ''.  A model slot of 0 stands for NULL.  Scores    *)
(* are kept in hundredths (score + priority/100 becomes 100*score +        *)
(* priority) so that they stay integers.                                   *)
(***************************************************************************)
EXTENDS Integers, Sequences, FiniteSets, TLC

\* ------------------------------------------------------------------------
\* Bounds of the model (not program constants)
\* ------------------------------------------------------------------------
BootTime == 100000
TickMs == 30000
MaxTicks == 2
MaxDbVersion == 2
\* the requests (executeAISystem or refreshAllCaches) a run serves
MaxRequests == 2
\* the db.execute calls the backing store rejects in a run
MaxFailures == 2

\* ------------------------------------------------------------------------
\* Program constants
\* ------------------------------------------------------------------------
CACHE_TTL_MS == 60000
CONFIG_CACHE_TTL_MS == 60000
MEMORY_LIMIT == 5

AITypes == {"brain", "heart", "system"}
DeviceModes == {"standard", "professional", "advanced"}
Slots == {1, 2, 3}

MODE_LIMITS ==
  [standard     |-> [nodes |-> 2, stacks |-> 1, domains |-> 1],
   professional |-> [nodes |-> 2, stacks |-> 2, domains |-> 2],
   advanced     |-> [nodes |-> 3, stacks |-> 3, domains |-> 3]]

\* ------------------------------------------------------------------------
\* Strings
\* ------------------------------------------------------------------------
UpperToLower ==
  [c \in {"A","B","C","D","E","F","G","H","I","J","K","L","M","N","O","P",
          "Q","R","S","T","U","V","W","X","Y","Z"} |->
     CASE c = "A" -> "a" [] c = "B" -> "b" [] c = "C" -> "c" [] c = "D" -> "d"
       [] c = "E" -> "e" [] c = "F" -> "f" [] c = "G" -> "g" [] c = "H" -> "h"
       [] c = "I" -> "i" [] c = "J" -> "j" [] c = "K" -> "k" [] c = "L" -> "l"
       [] c = "M" -> "m" [] c = "N" -> "n" [] c = "O" -> "o" [] c = "P" -> "p"
       [] c = "Q" -> "q" [] c = "R" -> "r" [] c = "S" -> "s" [] c = "T" -> "t"
       [] c = "U" -> "u" [] c = "V" -> "v" [] c = "W" -> "w" [] c = "X" -> "x"
       [] c = "Y" -> "y" [] c = "Z" -> "z"]

LowerLetters ==
  {"a","b","c","d","e","f","g","h","i","j","k","l","m","n","o","p","q","r",
   "s","t","u","v","w","x","y","z"}

Digits == {"0","1","2","3","4","5","6","7","8","9"}

\* \w of a JavaScript regular expression
IsWordChar(c) == c \in LowerLetters \cup DOMAIN UpperToLower \cup Digits \cup {"_"}

\* String.prototype.toLowerCase
ToLowerCase(s) ==
  [i \in 1..Len(s) |-> IF s[i] \in DOMAIN UpperToLower THEN UpperToLower[s[i]] ELSE s[i]]

\* String.prototype.includes
Includes(s, sub) ==
  \/ sub = << >>
  \/ \E i \in 1..(Len(s) - Len(sub) + 1) :
       s[i] = sub[1] /\ SubSeq(s, i, i + Len(sub) - 1) = sub

\* the maximal runs of the characters of s that satisfy InRun, each as the
\* positions [from, to] of its first and last character
Runs(s, InRun(_)) ==
  LET starts == {i \in 1..Len(s) : InRun(s[i]) /\ (i = 1 \/ ~InRun(s[i - 1]))}
      ends == {j \in 1..Len(s) : InRun(s[j]) /\ (j = Len(s) \/ ~InRun(s[j + 1]))}
  IN {[from |-> i,
       to |-> CHOOSE j \in ends : j >= i /\ \A e \in ends : e >= i => j <= e] :
        i \in starts}

\* s.split(/\W+/): the maximal runs of word characters.  Every caller only
\* tests or collects the tokens, so they are given as a set; the empty
\* strings JavaScript yields at a leading or trailing separator are left out
\* (every caller drops the short tokens).
SplitNonWord(s) == {SubSeq(s, r.from, r.to) : r \in Runs(s, IsWordChar)}

\* Array.prototype.filter
Filter(s, Test(_)) == SelectSeq(s, Test)

\* A NULL element of a keywords array (a NULL of a Postgres text[] column)
NullKeyword == << "<null>" >>

\* ------------------------------------------------------------------------
\* Keyword scoring
\* ------------------------------------------------------------------------
\* keyword.toLowerCase() raises a TypeError on a NULL keyword
ScoreThrows(keywords) == \E i \in 1..Len(keywords) : keywords[i] = NullKeyword

\* the points of a keyword, but 1 only for a keyword the prompt includes
KeywordPointsOneOnly(promptLower, words, keyword) ==
  LET kwLower == ToLowerCase(keyword) IN
  IF Includes(promptLower, kwLower) THEN 1
  ELSE IF \E w \in words : Includes(w, kwLower) \/ Includes(kwLower, w)
         THEN 1
         ELSE 0

KeywordPoints(promptLower, words, keyword) ==
  LET kwLower == ToLowerCase(keyword) IN
  IF Includes(promptLower, kwLower) THEN 2
  ELSE IF \E w \in words : Includes(w, kwLower) \/ Includes(kwLower, w)
         THEN 1
         ELSE 0

RECURSIVE SumKeywordPoints(_, _, _, _)
SumKeywordPoints(promptLower, words, keywords, i) ==
  IF i > Len(keywords) THEN 0
  ELSE KeywordPoints(promptLower, words, keywords[i])
         + SumKeywordPoints(promptLower, words, keywords, i + 1)

\* scoreByKeywords(prompt, keywords, label); label = << >> when it is absent
\* or empty (both falsy)
scoreByKeywords(prompt, keywords, label) ==
  LET promptLower == ToLowerCase(prompt)
      words == {w \in SplitNonWord(promptLower) : Len(w) > 2}
      labelPoints == IF label # << >> /\ Includes(promptLower, ToLowerCase(label))
                       THEN 5 ELSE 0
  IN labelPoints + SumKeywordPoints(promptLower, words, keywords, 1)


\* ------------------------------------------------------------------------
\* Backing store: the catalog tables (ai_nodes, ai_stacks, ai_domains,
\* ai_memories) in the successive versions an administrator gives them
\* (version 1 at start-up, empty tables from version 3 on).
\* Only active rows are listed (every query has WHERE is_active = true).
\* name, description and system_prompt are carried through by the code
\* without being read by the selection and are left out.
\* ------------------------------------------------------------------------
AINode(id, aiType, modelSlot, label, keywords, priority) ==
  [id |-> id, aiType |-> aiType, modelSlot |-> modelSlot, label |-> label,
   keywords |-> keywords, priority |-> priority]

AIStack(id, nodeId, aiType, label, keywords, priority) ==
  [id |-> id, nodeId |-> nodeId, aiType |-> aiType, label |-> label,
   keywords |-> keywords, priority |-> priority]

\* the name and system_prompt columns of the ai_domains rows
DomainName(id) ==
  CASE id = 21 -> << "i", "d", "x" >>
    [] id = 22 -> << "f", "i", "x", "e", "s" >>
    [] id = 29 -> << "s", "q", "l" >>
    [] id = 31 -> << "a", "p", "i" >>
    [] OTHER -> << "m", "i", "s", "c" >>

DomainSystemPrompt(id) ==
  CASE id = 21 -> << "B", "e", " ", "b", "r", "i", "e", "f", "." >>
    [] OTHER -> << >>

\* systemPrompt = << >> stands for a NULL or empty system_prompt
AIDomain(id, stackId, nodeId, aiType, keywords, priority) ==
  [id |-> id, stackId |-> stackId, nodeId |-> nodeId, aiType |-> aiType,
   name |-> DomainName(id), keywords |-> keywords,
   systemPrompt |-> DomainSystemPrompt(id), priority |-> priority]

\* a NULL content column
NullContent == << "<null>" >>

AIMemory(id, aiType, domainId, content, relevanceScore, usageCount) ==
  [id |-> id, aiType |-> aiType, domainId |-> domainId, content |-> content,
   relevanceScore |-> relevanceScore, usageCount |-> usageCount]

\* the words of the rows: keywords (kw), labels (lb) and memory contents
\* (memo: "use index" and "note")
Term ==
  [kwSql |-> << "s", "q", "l" >>,
   kwIndex |-> << "i", "n", "d", "e", "x" >>,
   kwFix |-> << "f", "i", "x" >>,
   kwCpu |-> << "c", "p", "u" >>,
   kwApi |-> << "a", "p", "i" >>,
   kwSqlite |-> << "s", "q", "l", "i", "t", "e" >>,
   lbSql |-> << "S", "Q", "L" >>,
   lbCpu |-> << "C", "P", "U" >>,
   lbApi |-> << "A", "P", "I" >>,
   lbFix |-> << "F", "i", "x" >>,
   memoIndex |-> << "u", "s", "e", " ", "i", "n", "d", "e", "x" >>,
   memoNote |-> << "n", "o", "t", "e" >>]

\* "Fix SQL indexes!"
PromptSql ==
  << "F","i","x"," ","S","Q","L"," ","i","n","d","e","x","e","s","!" >>
\* "cpu?"
PromptCpu == << "c", "p", "u", "?" >>

Prompts == {PromptSql, PromptCpu}

NodeTable(v) ==
  CASE v = 1 ->
         << AINode(1, "brain", 1, Term.lbSql, << Term.kwSql, Term.kwIndex >>, 10),
            AINode(2, "brain", 1, Term.lbApi, << Term.kwApi >>, 10),
            AINode(3, "brain", 1, Term.lbFix, << Term.kwFix >>, 5),
            AINode(4, "brain", 1, Term.lbCpu, << Term.kwCpu >>, 5),
            AINode(5, "heart", 0, Term.lbSql, << Term.kwSql >>, 5),
            AINode(6, "heart", 0, Term.lbCpu, << Term.kwCpu >>, 5),
            AINode(7, "heart", 0, Term.lbApi, << >>, 5),
            AINode(8, "heart", 3, Term.lbFix, << Term.kwFix, Term.kwFix >>, 1) >>
    [] v = 2 ->
         << AINode(2, "brain", 0, Term.lbApi, << Term.kwApi >>, 150),
            AINode(9, "brain", 2, Term.lbCpu, << Term.kwCpu, Term.kwSqlite >>, 20),
            AINode(10, "brain", 1, Term.lbFix, << Term.kwFix >>, 5),
            AINode(1, "system", 1, Term.lbSql, << Term.kwSql >>, 10),
            AINode(3, "system", 2, Term.lbFix, << Term.kwFix >>, 5),
            AINode(4, "system", 3, Term.lbCpu, << >>, 5),
            AINode(5, "heart", 2, Term.lbCpu, << Term.kwCpu >>, 5),
            AINode(6, "heart", 1, Term.lbFix, << Term.kwFix >>, 5),
            AINode(7, "heart", 3, Term.lbApi, << >>, 5) >>
    [] OTHER -> << >>

StackTable(v) ==
  CASE v = 1 ->
         << AIStack(11, 1, "brain", Term.lbSql, << Term.kwSql >>, 10),
            AIStack(12, 1, "brain", Term.lbFix, << Term.kwFix, Term.kwIndex >>, 10),
            AIStack(13, 1, "brain", Term.lbApi, << >>, 5),
            AIStack(14, 1, "brain", Term.lbCpu, << Term.kwCpu >>, 5),
            AIStack(15, 3, "brain", Term.lbFix, << Term.kwFix >>, 5),
            AIStack(16, 3, "brain", Term.lbSql, << >>, 5),
            AIStack(17, 5, "heart", Term.lbSql, << Term.kwSql >>, 5),
            AIStack(18, 6, "heart", Term.lbCpu, << Term.kwCpu >>, 5) >>
    [] v = 2 ->
         << AIStack(11, 2, "brain", Term.lbApi, << Term.kwApi >>, 120),
            AIStack(19, 9, "brain", Term.lbSql, << Term.kwSql >>, 10),
            AIStack(16, 3, "system", Term.lbFix, << Term.kwFix >>, 5),
            AIStack(17, 5, "heart", Term.lbCpu, << NullKeyword >>, 5) >>
    [] OTHER -> << >>

DomainTable(v) ==
  CASE v = 1 ->
         << AIDomain(21, 11, 1, "brain", << Term.kwSql, Term.kwIndex >>, 10),
            AIDomain(22, 11, 1, "brain", << Term.kwFix >>, 10),
            AIDomain(23, 11, 1, "brain", << Term.kwCpu >>, 5),
            AIDomain(24, 11, 1, "brain", << >>, 5),
            AIDomain(25, 12, 1, "brain", << Term.kwIndex >>, 5),
            AIDomain(26, 12, 1, "brain", << Term.kwApi >>, 5),
            AIDomain(27, 15, 3, "brain", << Term.kwFix >>, 5),
            AIDomain(28, 15, 3, "brain", << Term.kwSql >>, 5),
            AIDomain(29, 17, 5, "heart", << Term.kwSql >>, 5),
            AIDomain(30, 18, 6, "heart", << Term.kwCpu >>, 1) >>
    [] v = 2 ->
         << AIDomain(21, 19, 9, "brain", << Term.kwSql >>, 10),
            AIDomain(31, 11, 2, "brain", << Term.kwApi >>, 5),
            AIDomain(22, 16, 3, "system", << Term.kwFix >>, 5) >>
    [] OTHER -> << >>

MemoryTable(v) ==
  CASE v = 1 ->
         << AIMemory(41, "brain", 21, Term.memoIndex, 9, 1),
            AIMemory(42, "brain", 0, Term.memoNote, 5, 2),
            AIMemory(43, "shared", 29, Term.memoNote, 5, 1) >>
    [] v = 2 ->
         << AIMemory(44, "brain", 21, NullContent, 9, 1),
            AIMemory(45, "shared", 0, Term.memoNote, 5, 1),
            AIMemory(46, "shared", 22, NullContent, 3, 1) >>
    [] OTHER -> << >>


\* ------------------------------------------------------------------------
\* Sequences
\* ------------------------------------------------------------------------
\* Array.prototype.slice(0, n)
Slice(s, n) == SubSeq(s, 1, IF n < Len(s) THEN n ELSE Len(s))

\* Array.prototype.sort((a, b) => Key(b) - Key(a)): stable, descending.
\* An element is inserted after the elements whose key is at least its own.
RECURSIVE InsertKeyedDesc(_, _)
InsertKeyedDesc(sorted, e) ==
  IF sorted = << >> THEN << e >>
  ELSE IF Head(sorted).key >= e.key
         THEN << Head(sorted) >> \o InsertKeyedDesc(Tail(sorted), e)
         ELSE << e >> \o sorted

RECURSIVE SortKeyedDesc(_, _)
SortKeyedDesc(keyed, i) ==
  IF i = 0 THEN << >>
  ELSE InsertKeyedDesc(SortKeyedDesc(keyed, i - 1), keyed[i])

SortDesc(s, Key(_)) ==
  LET keyed == [i \in 1..Len(s) |-> [key |-> Key(s[i]), item |-> s[i]]]
      sorted == SortKeyedDesc(keyed, Len(keyed))
  IN [i \in 1..Len(sorted) |-> sorted[i].item]

RECURSIVE Concat(_)
Concat(ss) == IF ss = << >> THEN << >> ELSE Head(ss) \o Concat(Tail(ss))

\* ... ORDER BY priority DESC
Priority(row) == row.priority
OrderByPriorityDesc(rows) == SortDesc(rows, Priority)


\* ------------------------------------------------------------------------
\* Knowledge algorithms (algorithms_1766878040055.ts).  A quality is kept
\* in hundredths;
\* a similarity, a qualityScore and a contribution weight are fractions
\* num/den with den > 0.  The reasoning lines are left out.
\* ------------------------------------------------------------------------
\* the words the algorithms look for (fence is three backticks; the
\* character is written "<backtick>")
Word ==
  [error |-> << "e", "r", "r", "o", "r" >>,
   cannot |-> << "c", "a", "n", "n", "o", "t" >>,
   unable |-> << "u", "n", "a", "b", "l", "e" >>,
   fence |-> << "<backtick>", "<backtick>", "<backtick>" >>,
   function |-> << "f", "u", "n", "c", "t", "i", "o", "n", " " >>,
   const |-> << "c", "o", "n", "s", "t", " " >>,
   class |-> << "c", "l", "a", "s", "s", " " >>,
   import |-> << "i", "m", "p", "o", "r", "t", " " >>,
   require |-> << "r", "e", "q", "u", "i", "r", "e", "(" >>,
   oneDot |-> << "1", "." >>,
   step |-> << "S", "t", "e", "p", " " >>,
   healthy |-> << "h", "e", "a", "l", "t", "h", "y" >>,
   normal |-> << "n", "o", "r", "m", "a", "l" >>,
   warning |-> << "w", "a", "r", "n", "i", "n", "g" >>,
   critical |-> << "c", "r", "i", "t", "i", "c", "a", "l" >>,
   recommend |-> << "r", "e", "c", "o", "m", "m", "e", "n", "d" >>,
   should |-> << "s", "h", "o", "u", "l", "d" >>,
   action |-> << "a", "c", "t", "i", "o", "n" >>,
   unknown |-> << "u", "n", "k", "n", "o", "w", "n" >>]

\* the answers given when no response is valid
\* brain: "I apologize, but I was unable to generate a response. Please try
\* again."; heart: "// Unable to generate code fix. Please provide more
\* details."; system: "System diagnostic unavailable. Manual inspection
\* recommended."
Canned ==
  [brain |->
  << "I", " ", "a", "p", "o", "l", "o", "g", "i", "z", "e", ",", " ", "b",
     "u", "t", " ", "I", " ", "w", "a", "s", " ", "u", "n", "a", "b", "l",
     "e", " ", "t", "o", " ", "g", "e", "n", "e", "r", "a", "t", "e", " ",
     "a", " ", "r", "e", "s", "p", "o", "n", "s", "e", ".", " ", "P", "l",
     "e", "a", "s", "e", " ", "t", "r", "y", " ", "a", "g", "a", "i", "n",
     "." >>,
   heart |->
  << "/", "/", " ", "U", "n", "a", "b", "l", "e", " ", "t", "o", " ", "g",
     "e", "n", "e", "r", "a", "t", "e", " ", "c", "o", "d", "e", " ", "f",
     "i", "x", ".", " ", "P", "l", "e", "a", "s", "e", " ", "p", "r", "o",
     "v", "i", "d", "e", " ", "m", "o", "r", "e", " ", "d", "e", "t", "a",
     "i", "l", "s", "." >>,
   system |->
  << "S", "y", "s", "t", "e", "m", " ", "d", "i", "a", "g", "n", "o", "s",
     "t", "i", "c", " ", "u", "n", "a", "v", "a", "i", "l", "a", "b", "l",
     "e", ".", " ", "M", "a", "n", "u", "a", "l", " ", "i", "n", "s", "p",
     "e", "c", "t", "i", "o", "n", " ", "r", "e", "c", "o", "m", "m", "e",
     "n", "d", "e", "d", "." >>]

WhiteSpace == {" ", "\n", "\t", "\r"}

\* String.prototype.trim
Trim(s) ==
  LET kept == {i \in 1..Len(s) : s[i] \notin WhiteSpace}
  IN IF kept = {} THEN << >>
     ELSE SubSeq(s, CHOOSE i \in kept : \A j \in kept : i <= j,
                    CHOOSE i \in kept : \A j \in kept : j <= i)

\* text.split(/[.!?]+/).filter(s => s.trim().length > 10).length: the pieces
\* are the maximal runs of other characters (the empty strings the split
\* yields besides are dropped by the filter)
LongSentences(text) ==
  LET InSentence(c) == c \notin {".", "!", "?"}
  IN Cardinality({r \in Runs(text, InSentence) :
                    Len(Trim(SubSeq(text, r.from, r.to))) > 10})

Rat(n, d) == [num |-> n, den |-> d]
RatAdd(a, b) == Rat(a.num * b.den + b.num * a.den, a.den * b.den)
RatLess(a, b) == a.num * b.den < b.num * a.den

RECURSIVE RatSum(_, _)
RatSum(rs, i) == IF i > Len(rs) THEN Rat(0, 1) ELSE RatAdd(rs[i], RatSum(rs, i + 1))

Max(a, b) == IF a > b THEN a ELSE b
Min(a, b) == IF a < b THEN a ELSE b

\* as calculateSimilarity, but the words are compared as written
calculateSimilarityCaseSensitive(text1, text2) ==
  IF text1 = << >> \/ text2 = << >> THEN Rat(0, 1)
  ELSE LET words1 == {w \in SplitNonWord(text1) : Len(w) > 3}
           words2 == {w \in SplitNonWord(text2) : Len(w) > 3}
       IN IF words1 = {} \/ words2 = {} THEN Rat(0, 1)
          ELSE Rat(Cardinality(words1 \cap words2),
                   Max(Cardinality(words1), Cardinality(words2)))

calculateSimilarity(text1, text2) ==
  IF text1 = << >> \/ text2 = << >> THEN Rat(0, 1)
  ELSE LET words1 == {w \in SplitNonWord(ToLowerCase(text1)) : Len(w) > 3}
           words2 == {w \in SplitNonWord(ToLowerCase(text2)) : Len(w) > 3}
       IN IF words1 = {} \/ words2 = {} THEN Rat(0, 1)
          ELSE Rat(Cardinality(words1 \cap words2),
                   Max(Cardinality(words1), Cardinality(words2)))

calculateResponseQuality(response) ==
  IF ~response.success \/ response.response = << >> THEN 0
  ELSE LET text == response.response
           length == Len(text)
           lower == ToLowerCase(text)
       IN Min(100,
              50
              + (IF length > 100 /\ length < 5000 THEN 20
                 ELSE IF length >= 50 THEN 10 ELSE 0)
              + (IF LongSentences(text) >= 2 THEN 10 ELSE 0)
              + (IF /\ ~Includes(lower, Word.error)
                    /\ ~Includes(lower, Word.cannot)
                    /\ ~Includes(lower, Word.unable)
                   THEN 10 ELSE 0)
              + (IF response.timeMs > 500 /\ response.timeMs < 10000 THEN 10 ELSE 0))

\* responses.filter(r => r.success && r.response?.trim())
IsValidResponse(r) == r.success /\ Trim(r.response) # << >>

\* the similarities of the pairs (i, j), i < j, of the valid responses
PairSimilarities(valid) ==
  IF Len(valid) = 2
    THEN << calculateSimilarity(valid[1].response, valid[2].response) >>
  ELSE IF Len(valid) = 3
    THEN << calculateSimilarity(valid[1].response, valid[2].response),
            calculateSimilarity(valid[1].response, valid[3].response),
            calculateSimilarity(valid[2].response, valid[3].response) >>
  ELSE << >>

\* the average of the pair similarities
AverageSimilarity(valid) ==
  LET sims == PairSimilarities(valid)
      total == RatSum(sims, 1)
  IN Rat(total.num, total.den * Len(sims))

\* a sort key that ranks every response alike
QualityIgnored(s) == 0

Quality(s) == s.quality

RECURSIVE SumQuality(_, _)
SumQuality(scores, i) ==
  IF i > Len(scores) THEN 0 ELSE scores[i].quality + SumQuality(scores, i + 1)

\* the weights, but each the quality itself and not its share of the total
ContributionWeightsUnnormalised(scores) ==
  [slot \in Slots |->
     LET hits == {i \in 1..Len(scores) : scores[i].response.modelSlot = slot}
     IN IF hits = {} THEN Rat(0, 1)
        ELSE Rat(scores[CHOOSE i \in hits : \A j \in hits : j <= i].quality, 100)]

\* weights['model' + slot] = totalQuality > 0 ? quality / totalQuality : 0
ContributionWeights(scores) ==
  LET totalQuality == SumQuality(scores, 1) IN
  [slot \in Slots |->
     LET hits == {i \in 1..Len(scores) : scores[i].response.modelSlot = slot}
     IN IF hits = {} \/ totalQuality <= 0 THEN Rat(0, 1)
        ELSE Rat(scores[CHOOSE i \in hits : \A j \in hits : j <= i].quality,
                 totalQuality)]

\* the output when no response is valid, but without the canned answer
NoValidResponseNoAnswer(canned) ==
  [fusedAnswer |-> << >>, qualityScore |-> Rat(0, 1), selectedPrimary |-> 1,
   contributionWeights |-> [slot \in Slots |-> Rat(0, 1)], threw |-> FALSE]

\* the output when no response is valid
NoValidResponse(canned) ==
  [fusedAnswer |-> canned, qualityScore |-> Rat(0, 1), selectedPrimary |-> 1,
   contributionWeights |-> [slot \in Slots |-> Rat(0, 1)], threw |-> FALSE]

\* the output, but without the quality computed for it
FusionOutputNoQuality(primary, qualityScore, scores) ==
  [fusedAnswer |-> primary.response.response, qualityScore |-> Rat(0, 1),
   selectedPrimary |-> primary.response.modelSlot,
   contributionWeights |-> ContributionWeights(scores), threw |-> FALSE]

FusionOutput(primary, qualityScore, scores) ==
  [fusedAnswer |-> primary.response.response, qualityScore |-> qualityScore,
   selectedPrimary |-> primary.response.modelSlot,
   contributionWeights |-> ContributionWeights(scores), threw |-> FALSE]

brainKnowledgeAlgorithm(responses) ==
  LET validResponses == Filter(responses, IsValidResponse) IN
  IF Len(validResponses) = 0 THEN NoValidResponse(Canned.brain)
  ELSE LET scores == SortDesc([i \in 1..Len(validResponses) |->
                                 [response |-> validResponses[i],
                                  quality |-> calculateResponseQuality(validResponses[i])]],
                              Quality)
           coherenceScore == IF Len(validResponses) >= 2
                               THEN AverageSimilarity(validResponses)
                               ELSE Rat(1, 1)
           primary == scores[1]
           sum == RatAdd(Rat(primary.quality, 100), coherenceScore)
       IN FusionOutput(primary, Rat(sum.num, 2 * sum.den), scores)

heartQuality(r) ==
  LET text == r.response IN
  Min(100,
      calculateResponseQuality(r)
      + (IF Includes(text, Word.fence) THEN 15 ELSE 0)
      + (IF \/ Includes(text, Word.function)
            \/ Includes(text, Word.const)
            \/ Includes(text, Word.class)
           THEN 10 ELSE 0)
      + (IF Includes(text, Word.import) \/ Includes(text, Word.require) THEN 5 ELSE 0)
      + (IF Includes(text, Word.oneDot) \/ Includes(text, Word.step) THEN 5 ELSE 0))

heartKnowledgeAlgorithm(responses) ==
  LET validResponses == Filter(responses, IsValidResponse) IN
  IF Len(validResponses) = 0 THEN NoValidResponse(Canned.heart)
  ELSE LET scores == SortDesc([i \in 1..Len(validResponses) |->
                                 [response |-> validResponses[i],
                                  quality |-> heartQuality(validResponses[i])]],
                              Quality)
           primary == scores[1]
           consensusBonus ==
             IF /\ Len(validResponses) >= 2
                /\ RatLess(Rat(3, 10), AverageSimilarity(validResponses))
               THEN 10 ELSE 0
       IN FusionOutput(primary, Rat(Min(100, primary.quality + consensusBonus), 100),
                       scores)

\* text.match(/\d+(\.\d+)?(%|ms|mb|gb|kb)?/g).length.  Each run of digits
\* starts a match unless the match before it took it as its fraction, which
\* it does when it started at the run just before, one dot away.
IsDigit(c) == c \in Digits

RECURSIVE StartsMatch(_, _, _)
StartsMatch(s, runs, r) ==
  LET before == {q \in runs : q.to + 2 = r.from /\ s[q.to + 1] = "."}
  IN \A q \in before : ~StartsMatch(s, runs, q)

CountNumberMatches(s) ==
  LET runs == Runs(s, IsDigit)
  IN Cardinality({r \in runs : StartsMatch(s, runs, r)})

systemQuality(r) ==
  LET text == ToLowerCase(r.response) IN
  Min(100,
      calculateResponseQuality(r)
      + (IF CountNumberMatches(text) >= 2 THEN 10 ELSE 0)
      + (IF \/ Includes(text, Word.healthy) \/ Includes(text, Word.normal)
            \/ Includes(text, Word.warning) \/ Includes(text, Word.critical)
           THEN 10 ELSE 0)
      + (IF \/ Includes(text, Word.recommend) \/ Includes(text, Word.should)
            \/ Includes(text, Word.action)
           THEN 10 ELSE 0))

severityIndicators == << Word.critical, Word.warning, Word.healthy, Word.normal, Word.error >>

\* severityIndicators.find(s => text.includes(s)) || 'unknown'
DetectedSeverity(r) ==
  LET text == ToLowerCase(r.response)
      hits == {i \in 1..Len(severityIndicators) : Includes(text, severityIndicators[i])}
  IN IF hits = {} THEN Word.unknown
     ELSE severityIndicators[CHOOSE i \in hits : \A j \in hits : i <= j]

systemKnowledgeAlgorithm(responses) ==
  LET validResponses == Filter(responses, IsValidResponse) IN
  IF Len(validResponses) = 0 THEN NoValidResponse(Canned.system)
  ELSE LET scores == SortDesc([i \in 1..Len(validResponses) |->
                                 [response |-> validResponses[i],
                                  quality |-> systemQuality(validResponses[i])]],
                              Quality)
           primary == scores[1]
           severityConsensus ==
             Cardinality({DetectedSeverity(validResponses[i]) :
                            i \in 1..Len(validResponses)}) = 1
       IN FusionOutput(primary,
                       IF severityConsensus THEN Rat(primary.quality, 100)
                                            ELSE Rat(primary.quality * 8, 1000),
                       scores)

\* the dispatcher; an aiType outside the three raises an Error
FusionThrew ==
  [fusedAnswer |-> << >>, qualityScore |-> Rat(0, 1), selectedPrimary |-> 0,
   contributionWeights |-> [slot \in Slots |-> Rat(0, 1)], threw |-> TRUE]

runKnowledgeAlgorithm(aiType, responses) ==
  CASE aiType = "brain" -> brainKnowledgeAlgorithm(responses)
    [] aiType = "heart" -> heartKnowledgeAlgorithm(responses)
    [] aiType = "system" -> systemKnowledgeAlgorithm(responses)
    [] OTHER -> FusionThrew

\* ------------------------------------------------------------------------
\* Model configuration cache (heart-ai_1766878461646.ts)
\* ------------------------------------------------------------------------
\* the pieces of text the handler writes
Piece ==
  [contextOpen |-> << "[", "C", "o", "n", "t", "e", "x", "t", ":", " " >>,
   close |-> << "]" >>,
   arrow |-> << "→" >>,
   bar |-> << " ", "|", " " >>,
   newline |-> << "\n" >>,
   domainExpertise |-> << "[", "D", "o", "m", "a", "i", "n", " ", "E", "x", "p", "e", "r", "t", "i", "s", "e", ":", "]" >>,
   relevantMemories |-> << "[", "R", "e", "l", "e", "v", "a", "n", "t", " ", "M", "e", "m", "o", "r", "i", "e", "s", ":", "]" >>,
   dash |-> << "-", " " >>,
   ellipsis |-> << ".", ".", "." >>,
   userRequest |-> << "[", "U", "s", "e", "r", " ", "R", "e", "q", "u", "e", "s", "t", ":", "]" >>,
   open |-> << "[" >>,
   slash |-> << "/" >>,
   responseTo |-> << "]", " ", "R", "e", "s", "p", "o", "n", "s", "e", " ", "t", "o", ":", " " >>]

\* the provider and model names of the configuration rows
Name ==
  [openAI |-> << "o", "a" >>,
   anthropic |-> << "a", "n" >>,
   google |-> << "g", "g" >>,
   gpt |-> << "g", "4" >>,
   claude |-> << "c", "3" >>,
   gemini |-> << "g", "m" >>]

AIModelConfig(id, aiType, modelSlot, provider, modelName, isPrimary, priority) ==
  [id |-> id, aiType |-> aiType, modelSlot |-> modelSlot, provider |-> provider,
   modelName |-> modelName, isPrimary |-> isPrimary, priority |-> priority]

\* the active rows of ai_model_config in the successive versions of the
\* backing store
ConfigTable(v) ==
  CASE v = 1 ->
         << AIModelConfig(51, "brain", 1, Name.openAI, Name.gpt, FALSE, 9),
            AIModelConfig(52, "brain", 1, Name.anthropic, Name.claude, TRUE, 5),
            AIModelConfig(53, "brain", 2, Name.openAI, Name.gpt, TRUE, 5),
            AIModelConfig(54, "brain", 3, Name.google, Name.gemini, FALSE, 5),
            AIModelConfig(55, "heart", 1, Name.anthropic, Name.claude, TRUE, 5),
            AIModelConfig(56, "heart", 2, Name.openAI, Name.gpt, TRUE, 5) >>
    [] v = 2 ->
         << AIModelConfig(52, "brain", 1, Name.anthropic, Name.claude, TRUE, 5),
            AIModelConfig(53, "brain", 2, Name.openAI, Name.gpt, TRUE, 5),
            AIModelConfig(54, "brain", 3, Name.google, Name.gemini, FALSE, 5),
            AIModelConfig(55, "heart", 1, Name.anthropic, Name.claude, TRUE, 5),
            AIModelConfig(56, "heart", 2, Name.openAI, Name.gpt, TRUE, 5),
            AIModelConfig(57, "heart", 3, Name.google, Name.gemini, TRUE, 5),
            AIModelConfig(58, "system", 1, Name.anthropic, Name.claude, TRUE, 5),
            AIModelConfig(59, "system", 2, Name.openAI, Name.gpt, FALSE, 5),
            AIModelConfig(60, "system", 3, Name.google, Name.gemini, TRUE, 5) >>
    [] OTHER -> << >>

\* the keys aiType-slot of modelConfigCache; a key that is not in the
\* Map is given the empty list
ConfigKeys == AITypes \X Slots
EmptyConfigCache == [k \in ConfigKeys |-> << >>]

\* modelConfigCache after clear() and the loop over the rows, which arrive
\* ORDER BY ai_type, model_slot, priority DESC
LoadModelConfig(v) ==
  [k \in ConfigKeys |->
     LET OfKey(row) == row.aiType = k[1] /\ row.modelSlot = k[2]
     IN OrderByPriorityDesc(Filter(ConfigTable(v), OfKey))]

\* null
NullConfig == AIModelConfig(0, "none", 0, << >>, << >>, FALSE, 0)

\* configs.find(c => c.isPrimary) || configs[0] || null
getModelConfig(cache, aiType, slot) ==
  LET configs == cache[<< aiType, slot >>]
      primaries == {i \in 1..Len(configs) : configs[i].isPrimary}
  IN IF primaries # {}
       THEN configs[CHOOSE i \in primaries : \A j \in primaries : i <= j]
     ELSE IF Len(configs) > 0 THEN configs[1]
     ELSE NullConfig

\* ------------------------------------------------------------------------
\* buildContextPrompt and callAIModel
\* ------------------------------------------------------------------------
\* Array.prototype.join
RECURSIVE Join(_, _)
Join(parts, sep) ==
  IF Len(parts) = 0 THEN << >>
  ELSE IF Len(parts) = 1 THEN parts[1]
  ELSE parts[1] \o sep \o Join(Tail(parts), sep)

\* mem.content.substring raises a TypeError on a NULL content
PromptThrows(routing) ==
  \E i \in 1..Len(Slice(routing.memories, 3)) :
    routing.memories[i].content = NullContent

buildContextPrompt(originalPrompt, routing) ==
  LET pathStr ==
        Join([i \in 1..Len(routing.domains) |->
                routing.domains[i].nodeLabel \o Piece.arrow
                  \o routing.domains[i].stackLabel \o Piece.arrow
                  \o routing.domains[i].name],
             Piece.bar)
      HasSystemPrompt(d) == d.systemPrompt # << >>
      withPrompt == Slice(Filter(routing.domains, HasSystemPrompt), 2)
      systemPrompts == [i \in 1..Len(withPrompt) |-> withPrompt[i].systemPrompt]
      memories == Slice(routing.memories, 3)
      parts ==
        << Piece.contextOpen \o pathStr \o Piece.close >>
        \o (IF Len(systemPrompts) > 0
              THEN << << >>, Piece.domainExpertise, Join(systemPrompts, Piece.newline) >>
              ELSE << >>)
        \o (IF Len(routing.memories) > 0
              THEN << << >>, Piece.relevantMemories >>
                   \o [i \in 1..Len(memories) |->
                         Piece.dash \o Slice(memories[i].content, 200) \o Piece.ellipsis]
              ELSE << >>)
        \o << << >>, Piece.userRequest, originalPrompt >>
  IN Join(parts, Piece.newline)

\* callAIModel: the placeholder answer; nothing in its try block can raise
callAIModel(config, prompt) ==
  [text |-> Piece.open \o config.provider \o Piece.slash \o config.modelName
              \o Piece.responseTo \o Slice(prompt, 50) \o Piece.ellipsis,
   success |-> TRUE]

\* the RoutingResult of executeModel's catch block
EmptyRouting(mode) ==
  [mode |-> mode, nodes |-> << >>, stacks |-> << >>, domains |-> << >>,
   memories |-> << >>, totalDomains |-> 0, confidence |-> [num |-> 0, den |-> 1]]

\* ------------------------------------------------------------------------
\* executeModel
\* ------------------------------------------------------------------------
\* error tells that the response was built by the catch block (it carries
\* error.message)
ModelResponse(modelSlot, config, response, success, timeMs, error, routing) ==
  [modelSlot |-> modelSlot, provider |-> config.provider,
   modelName |-> config.modelName, response |-> response, success |-> success,
   timeMs |-> timeMs, error |-> error, routing |-> routing]

\* no response yet
NoResponse == ModelResponse(0, NullConfig, << >>, FALSE, 0, FALSE, EmptyRouting("none"))

\* the catch block of executeModel, but returning the routing computed so far
CaughtResponseKeepsRouting(modelSlot, config, mode, timeMs, routing) ==
  ModelResponse(modelSlot, config, << >>, FALSE, timeMs, TRUE, routing)

\* the catch block of executeModel
CaughtResponse(modelSlot, config, mode, timeMs, routing) ==
  ModelResponse(modelSlot, config, << >>, FALSE, timeMs, TRUE, EmptyRouting(mode))

\* the try block of executeModel after autoRoute has returned the routing
TriedResponse(modelSlot, config, prompt, timeMs, routing) ==
  LET response == callAIModel(config, buildContextPrompt(prompt, routing))
  IN ModelResponse(modelSlot, config, response.text, response.success, timeMs,
                   FALSE, routing)

\* ------------------------------------------------------------------------
\* State
\* ------------------------------------------------------------------------
VARIABLES
  clock,             \* Date.now()
  dbVersion,         \* the version of the catalog tables in the backing store
  dbQueue,           \* the callers whose db.execute awaits its answer, oldest first
  dbFailures,        \* the number of db.execute calls that have been rejected
  allNodes,          \* module state of the auto-router
  allStacks,
  allDomains,
  labelIndex,
  lastCacheRefresh,
  rc,                \* the calls in flight into the auto-router, per caller
  modelConfigCache,  \* module state of the handler
  lastConfigRefresh,
  ex,                \* the executeAISystem or refreshAllCaches call in flight
  fz,                \* a function of the program applied to given inputs
  orchestrator,      \* the MigrationOrchestrator and its calls in flight
  maintenance,       \* the UnifiedMaintenanceSystem and its calls in flight
  comms              \* the CommunicationWebSocketServer and its sockets

cacheVars == << allNodes, allStacks, allDomains, labelIndex, lastCacheRefresh >>
sideVars == << orchestrator, maintenance, comms >>
execVars == << modelConfigCache, lastConfigRefresh, ex, fz, sideVars >>
vars == << clock, dbVersion, dbQueue, dbFailures, allNodes, allStacks, allDomains, labelIndex,
           lastCacheRefresh, rc, modelConfigCache, lastConfigRefresh, ex, fz,
           orchestrator, maintenance, comms >>
coreVars == << clock, dbVersion, dbQueue, dbFailures, cacheVars, rc,
               modelConfigCache, lastConfigRefresh, ex, fz >>

Callers == {1, 2, 3}
\* callers of the exported functions other than the three model slots
ExternalCallers == {1, 2}
\* the call refreshAllCaches makes into the auto-router
AdminCaller == 3

\* Map.get(k) || []
MapGet(m, k) == IF k \in DOMAIN m THEN m[k] ELSE << >>

EmptyIndex ==
  [nodes |-> [k \in {} |-> 0], stacks |-> [k \in {} |-> << >>],
   domains |-> [k \in {} |-> << >>], nodesByModel |-> [k \in {} |-> << >>]]

\* a catalog snapshot, and the one the cache holds
SnapshotOf(nodes, stacks, domains, index) ==
  [nodes |-> nodes, stacks |-> stacks, domains |-> domains, index |-> index]

Snapshot == SnapshotOf(allNodes, allStacks, allDomains, labelIndex)

\* ------------------------------------------------------------------------
\* buildLabelIndex
\* ------------------------------------------------------------------------
\* labelIndex.nodes.set(label.toUpperCase(), node): the last node of a label wins
LastWithLabel(nodes, key) ==
  LET hits == {i \in 1..Len(nodes) : ToLowerCase(nodes[i].label) = key}
  IN nodes[CHOOSE i \in hits : \A j \in hits : j <= i]

\* The keys of labelIndex.nodes are upper-cased labels; two labels have the
\* same upper-case form exactly when they have the same lower-case form, which
\* is the form the keys are kept in here.
buildLabelIndex(nodes, stacks, domains) ==
  [nodes |->
     [key \in {ToLowerCase(nodes[i].label) : i \in 1..Len(nodes)} |->
        LastWithLabel(nodes, key)],
   stacks |->
     [nid \in {stacks[i].nodeId : i \in 1..Len(stacks)} |->
        LET OfNode(st) == st.nodeId = nid IN Filter(stacks, OfNode)],
   domains |->
     [sid \in {domains[i].stackId : i \in 1..Len(domains)} |->
        LET OfStack(d) == d.stackId = sid IN Filter(domains, OfStack)],
   nodesByModel |->
     [slot \in {nodes[i].modelSlot : i \in 1..Len(nodes)} \ {0} |->
        LET OfSlot(n) == n.modelSlot = slot IN Filter(nodes, OfSlot)]]

\* ------------------------------------------------------------------------
\* Selection.  The functions read the module state; s is the snapshot
\* (allNodes, allStacks, allDomains, labelIndex) they read it from.
\* ------------------------------------------------------------------------
Score(item) == item.score

\* the candidates selectNodes hands to selectTopItems
\* as NodeCandidates, but the fallback reads the table instead of the
\* snapshot
NodeCandidatesFromTable(s, aiType, modelSlot) ==
  LET OfType(n) == n.aiType = aiType
      modelNodes == MapGet(s.index.nodesByModel, modelSlot)
      relevantNodes == Filter(modelNodes, OfType)
  IN IF Len(relevantNodes) = 0
       THEN Filter(OrderByPriorityDesc(NodeTable(dbVersion)), OfType)
       ELSE relevantNodes

NodeCandidates(s, aiType, modelSlot) ==
  LET OfType(n) == n.aiType = aiType
      modelNodes == MapGet(s.index.nodesByModel, modelSlot)
      relevantNodes == Filter(modelNodes, OfType)
  IN IF Len(relevantNodes) = 0 THEN Filter(s.nodes, OfType) ELSE relevantNodes

\* nodes.map(...) of selectTopItems and selectStacks
ScoredItems(nodes, prompt) ==
  [i \in 1..Len(nodes) |->
     [id |-> nodes[i].id, label |-> nodes[i].label,
      score |-> 100 * scoreByKeywords(prompt, nodes[i].keywords, nodes[i].label)
                + nodes[i].priority]]

\* selectTopItems without its slice(0, limit)
selectTopItemsNoSlice(nodes, prompt, limit) ==
  SortDesc(ScoredItems(nodes, prompt), Score)

selectTopItems(nodes, prompt, limit) ==
  Slice(SortDesc(ScoredItems(nodes, prompt), Score), limit)

selectNodes(s, aiType, modelSlot, prompt, limit) ==
  selectTopItems(NodeCandidates(s, aiType, modelSlot), prompt, limit)

selectStacks(s, selectedNodes, prompt, limitPerNode) ==
  Concat([n \in 1..Len(selectedNodes) |->
            selectTopItems(MapGet(s.index.stacks, selectedNodes[n].id),
                           prompt, limitPerNode)])

\* allStacks.find(s => s.id === id)?.nodeId || ''
ParentNodeId(s, stackId) ==
  LET hits == {i \in 1..Len(s.stacks) : s.stacks[i].id = stackId}
  IN IF hits = {} THEN 0
     ELSE s.stacks[CHOOSE i \in hits : \A j \in hits : i <= j].nodeId

\* new Map(selectedNodes.map(n => [n.id, n])).get(nodeId)?.label || ''
NodeLabelOf(selectedNodes, nodeId) ==
  LET hits == {i \in 1..Len(selectedNodes) : selectedNodes[i].id = nodeId}
  IN IF hits = {} THEN << >>
     ELSE selectedNodes[CHOOSE i \in hits : \A j \in hits : j <= i].label

\* as selectDomains, but every domain of a selected stack is kept
selectDomainsNoSlice(s, selectedStacks, selectedNodes, prompt, limitPerStack) ==
  Concat([k \in 1..Len(selectedStacks) |->
    LET stack == selectedStacks[k]
        stackDomains == MapGet(s.index.domains, stack.id)
        nodeLabel == NodeLabelOf(selectedNodes, ParentNodeId(s, stack.id))
        scored == [i \in 1..Len(stackDomains) |->
                     [id |-> stackDomains[i].id,
                      name |-> stackDomains[i].name,
                      stackId |-> stackDomains[i].stackId,
                      stackLabel |-> stack.label,
                      nodeId |-> stackDomains[i].nodeId,
                      nodeLabel |-> nodeLabel,
                      keywords |-> stackDomains[i].keywords,
                      systemPrompt |-> stackDomains[i].systemPrompt,
                      score |-> 100 * scoreByKeywords(prompt, stackDomains[i].keywords,
                                                      << >>)
                                + stackDomains[i].priority]]
    IN SortDesc(scored, Score)])

selectDomains(s, selectedStacks, selectedNodes, prompt, limitPerStack) ==
  Concat([k \in 1..Len(selectedStacks) |->
    LET stack == selectedStacks[k]
        stackDomains == MapGet(s.index.domains, stack.id)
        nodeLabel == NodeLabelOf(selectedNodes, ParentNodeId(s, stack.id))
        scored == [i \in 1..Len(stackDomains) |->
                     [id |-> stackDomains[i].id,
                      name |-> stackDomains[i].name,
                      stackId |-> stackDomains[i].stackId,
                      stackLabel |-> stack.label,
                      nodeId |-> stackDomains[i].nodeId,
                      nodeLabel |-> nodeLabel,
                      keywords |-> stackDomains[i].keywords,
                      systemPrompt |-> stackDomains[i].systemPrompt,
                      score |-> 100 * scoreByKeywords(prompt, stackDomains[i].keywords,
                                                      << >>)
                                + stackDomains[i].priority]]
    IN Slice(SortDesc(scored, Score), limitPerStack)])

\* A NULL keyword makes the scoring of its row raise a TypeError.  Every
\* candidate row is scored, selected or not.
AnyRowThrows(rows) == \E i \in 1..Len(rows) : ScoreThrows(rows[i].keywords)

\* ------------------------------------------------------------------------
\* getMemories
\* ------------------------------------------------------------------------
MemoryOrder(m) == 1000 * m.relevanceScore + m.usageCount

\* SELECT ... FROM ai_memories WHERE ai_type = $1 AND (domain_id = ANY($2) OR
\* domain_id IS NULL) ORDER BY relevance_score DESC, usage_count DESC LIMIT $3
MemoryQuery(v, aiType, domainIds) ==
  LET memoryType == IF aiType = "brain" THEN "brain" ELSE "shared"
      Wanted(m) == m.aiType = memoryType /\ (m.domainId \in domainIds \/ m.domainId = 0)
  IN Slice(SortDesc(Filter(MemoryTable(v), Wanted), MemoryOrder), MEMORY_LIMIT)

\* confidence = Math.min(1, avgScore / 5) as a fraction num/den; the domain
\* scores are in hundredths
RECURSIVE SumScores(_, _)
SumScores(items, i) == IF i > Len(items) THEN 0 ELSE items[i].score + SumScores(items, i + 1)

Confidence(domains) ==
  IF Len(domains) = 0 THEN [num |-> 0, den |-> 1]
  ELSE IF SumScores(domains, 1) >= 500 * Len(domains) THEN [num |-> 1, den |-> 1]
  ELSE [num |-> SumScores(domains, 1), den |-> 500 * Len(domains)]

\* ------------------------------------------------------------------------
\* Calls.  The program is single-threaded: an action is one turn of the event
\* loop, from a call by a client or the completion of a db.execute up to the
\* point where every function in flight awaits a query (or has returned to
\* the client).
\*
\* rc[c] is a call into the auto-router:
\*   op: refreshCache | forceRefreshCache | autoRoute (called by a client) |
\*       executeModel (slot c of the executeAISystem call in flight)
\*   pc: idle | nodesQ | stacksQ | domainsQ (awaiting that db.execute of
\*       refreshCache) | refreshed (refreshCache has returned) | memQ
\*       (awaiting the query of getMemories) | routed | threw (autoRoute has
\*       returned or thrown)
\* Four fields are history kept for the properties, not program state:
\* reads counts the db.execute calls refreshCache has issued in this call,
\* failed tells that its catch block ran, wrote that one of its
\* assignments changed allNodes, allStacks, allDomains or labelIndex, and
\* seen is the snapshot the selections of autoRoute have read.
\*
\* ex is the executeAISystem or refreshAllCaches call in flight:
\*   pc: idle | cfgQ (awaiting the db.execute of refreshModelConfig) |
\*       fanout (awaiting Promise.all of the three executeModel calls) |
\*       forcing (refreshAllCaches awaiting forceRefreshCache, the call
\*       rc[AdminCaller]) | returned | threw
\* with the history fields reads and failed of refreshModelConfig.
\* ------------------------------------------------------------------------
\* the three values of F, one per model slot (or caller), as a tuple
Triple(F(_)) == << F(1), F(2), F(3) >>

NoCall ==
  [pc |-> "idle", op |-> "none", now |-> 0, reads |-> 0, failed |-> FALSE,
   wrote |-> FALSE, seen |-> SnapshotOf(<< >>, << >>, << >>, EmptyIndex),
   aiType |-> "none", modelSlot |-> 0, prompt |-> << >>,
   mode |-> "none", routing |-> EmptyRouting("none")]

NoResult ==
  [finalAnswer |-> << >>, qualityScore |-> Rat(0, 1), selectedPrimary |-> 0,
   totalTimeMs |-> 0,
   contributionWeights |-> [slot \in Slots |-> Rat(0, 1)]]

\* what a wrapper has returned to its caller; raised tells that it let an
\* exception out instead
NoAnswer ==
  [success |-> FALSE, answer |-> << >>, mode |-> "none", raised |-> FALSE,
   metrics |-> [totalTimeMs |-> 0, qualityScore |-> Rat(0, 1),
                totalDomains |-> 0]]

\* logs counts the inserts of the loggers that are in flight; lost, the
\* inserts rejected so far, is history kept for the properties; answer is
\* what the wrapper returned for the last request
NoExec ==
  [pc |-> "idle", served |-> 0, logs |-> 0, lost |-> 0, answer |-> NoAnswer, op |-> "none", aiType |-> "none", prompt |-> << >>,
   mode |-> "none", startTime |-> 0, fanoutTime |-> 0, now |-> 0, reads |-> 0,
   failed |-> FALSE, configs |-> << >>, responses |-> << NoResponse, NoResponse, NoResponse >>,
   result |-> NoResult]

\* refreshCache without its TTL guard
EnterRefreshCacheNoGuard(call, last) ==
  [call EXCEPT !.pc = "nodesQ", !.now = clock, !.reads = 1]

\* refreshCache up to its first await: const now = Date.now(); the TTL guard;
\* the nodes query is issued.  last is the value of lastCacheRefresh it reads.
EnterRefreshCache(call, last) ==
  IF clock - last < CACHE_TTL_MS
    THEN [call EXCEPT !.pc = "refreshed"]
    ELSE [call EXCEPT !.pc = "nodesQ", !.now = clock, !.reads = 1]

\* forceRefreshCache without its reset of lastCacheRefresh
EnterForceRefreshCacheNoReset(call) ==
  [last |-> lastCacheRefresh, call |-> EnterRefreshCache(call, lastCacheRefresh)]

\* forceRefreshCache up to the first await of refreshCache: lastCacheRefresh
\* = 0; await refreshCache().  Gives the value left in lastCacheRefresh and
\* the call.
EnterForceRefreshCache(call) ==
  [last |-> 0, call |-> EnterRefreshCache(call, 0)]

\* autoRoute up to the first await of refreshCache
EnterAutoRoute(op, aiType, modelSlot, prompt, mode) ==
  EnterRefreshCache([NoCall EXCEPT !.op = op, !.aiType = aiType,
                                   !.modelSlot = modelSlot, !.prompt = prompt,
                                   !.mode = mode],
                    lastCacheRefresh)

\* the RoutingResult of autoRoute before getMemories
RoutingResult(mode, nodes, stacks, domains) ==
  [mode |-> mode, nodes |-> nodes, stacks |-> stacks, domains |-> domains,
   memories |-> << >>, totalDomains |-> Len(domains),
   confidence |-> Confidence(domains)]

\* autoRoute at the await in getMemories, which returns [] at once when no
\* domain was selected
AwaitMemories(call, routing) ==
  [call EXCEPT !.routing = routing,
               !.pc = IF Len(routing.domains) = 0 THEN "routed" ELSE "memQ"]

\* autoRoute from selectStacks on, nodes being the selected nodes and stacks
\* what selectStacks returns unless the scoring of a stack raises; the
\* scoring of a domain may raise in selectDomains
RouteFromStacks(call, s, limits, nodes, stacks) ==
  IF \/ \E n \in 1..Len(nodes) : AnyRowThrows(MapGet(s.index.stacks, nodes[n].id))
     \/ \E k \in 1..Len(stacks) : AnyRowThrows(MapGet(s.index.domains, stacks[k].id))
    THEN [call EXCEPT !.pc = "threw"]
    ELSE AwaitMemories(call,
           RoutingResult(call.mode, nodes, stacks,
                         selectDomains(s, stacks, nodes, call.prompt, limits.domains)))

\* autoRoute from the return of selectNodes on
RouteFromNodes(call, s, limits, nodes) ==
  RouteFromStacks(call, s, limits, nodes,
                  selectStacks(s, nodes, call.prompt, limits.stacks))

\* autoRoute from the return of refreshCache to the await in getMemories, on
\* the snapshot s: the three selections, each of which may raise
AfterRefreshCache(call, s) ==
  IF call.pc # "refreshed" \/ call.op \notin {"autoRoute", "executeModel"}
    THEN call
  ELSE IF AnyRowThrows(NodeCandidates(s, call.aiType, call.modelSlot))
    THEN [call EXCEPT !.pc = "threw", !.seen = s]
  ELSE RouteFromNodes([call EXCEPT !.seen = s], s, MODE_LIMITS[call.mode],
                      selectNodes(s, call.aiType, call.modelSlot, call.prompt,
                                  MODE_LIMITS[call.mode].nodes))

\* executeModel of a slot whose autoRoute has returned or thrown: the prompt
\* is built, the model called and the ModelResponse returned, or the catch
\* block returns it
\* the try block of executeModel has run to its end
Tried(call) == call.pc = "routed" /\ ~PromptThrows(call.routing)

SlotResponse(e, call) ==
  IF Tried(call)
    THEN TriedResponse(call.modelSlot, e.configs[call.modelSlot], e.prompt,
                       clock - e.fanoutTime, call.routing)
    ELSE CaughtResponse(call.modelSlot, e.configs[call.modelSlot], e.mode,
                        clock - e.fanoutTime, call.routing)

\* the AISystemResult made of the output of the knowledge algorithm
Fused(e, out) ==
  IF out.threw
    THEN [e EXCEPT !.pc = "threw"]
    ELSE [e EXCEPT !.pc = "returned",
                   !.logs = @ + 1,
                   !.result = [finalAnswer |-> out.fusedAnswer,
                               qualityScore |-> out.qualityScore,
                               selectedPrimary |-> out.selectedPrimary,
                               totalTimeMs |-> clock - e.startTime,
                               contributionWeights |-> out.contributionWeights]]

\* the autoRoute of an executeModel has returned or thrown
SlotDone(call) == call.op = "executeModel" /\ call.pc \in {"routed", "threw"}

\* the forceRefreshCache of refreshAllCaches has returned
Forced(e, call) == e.pc = "forcing" /\ call.pc = "refreshed"

\* executeAISystem once Promise.all has resolved (the knowledge algorithm
\* runs and the result is returned), refreshAllCaches once forceRefreshCache
\* has returned
\* as Joined, but the first slot that completes ends the wait
JoinedOnFirst(e, forced) ==
  IF e.pc = "fanout" /\ \E slot \in Slots : e.responses[slot] # NoResponse
    THEN Fused(e, runKnowledgeAlgorithm(e.aiType, e.responses))
  ELSE IF forced THEN [e EXCEPT !.pc = "returned"]
  ELSE e

Joined(e, forced) ==
  IF e.pc = "fanout" /\ \A slot \in Slots : e.responses[slot] # NoResponse
    THEN Fused(e, runKnowledgeAlgorithm(e.aiType, e.responses))
  ELSE IF forced THEN [e EXCEPT !.pc = "returned"]
  ELSE e

\* the executeModel calls that can return do
Settled(e, calls) ==
  [rc |-> Triple(LAMBDA c : IF SlotDone(calls[c]) \/ (c = AdminCaller /\ Forced(e, calls[c]))
                              THEN NoCall ELSE calls[c]),
   ex |-> Joined([e EXCEPT !.responses =
                    Triple(LAMBDA slot : IF SlotDone(calls[slot])
                                           THEN SlotResponse(e, calls[slot])
                                           ELSE e.responses[slot]),
                             !.logs = @ + Cardinality({slot \in Slots :
                                            SlotDone(calls[slot]) /\ Tried(calls[slot])})],
                 Forced(e, calls[AdminCaller]))]

\* Every function whose await has resolved runs on, on the snapshot s, up to
\* its next await.  e and calls are ex and rc when the awaits resolve; the
\* result is their value when every function awaits again or has returned.
Turn(e, calls, s) ==
  Settled(e, Triple(LAMBDA c : AfterRefreshCache(calls[c], s)))

\* The backing store answers the db.execute calls in the order they were
\* issued.  ConfigCaller stands in dbQueue for refreshModelConfig.
ConfigCaller == 0

Awaiting(call) == call.pc \in {"nodesQ", "stacksQ", "domainsQ", "memQ"}

\* the store answers the db.execute of caller c
Answers(c) == dbQueue # << >> /\ Head(dbQueue) = c

\* the db.execute calls issued by a step that takes the calls from old to
\* new and the request from e to f
Issued(old, new, e, f) ==
  SelectSeq(<< 1, 2, 3 >>, LAMBDA c : Awaiting(new[c]) /\ new[c].pc # old[c].pc)
    \o (IF f.pc = "cfgQ" /\ e.pc # "cfgQ" THEN << ConfigCaller >> ELSE << >>)

\* the step leaves rest of the queue, then the calls it has issued
Queue(rest) == dbQueue' = rest \o Issued(rc, rc', ex, ex')

\* An await of autoRoute, of executeModel or of refreshAllCaches has
\* resolved and its continuation is queued.  The event loop takes up no
\* other callback and no other request before the queue of continuations
\* is empty.
Pending ==
  \E c \in Callers :
    \/ rc[c].pc = "refreshed" /\ rc[c].op \in {"autoRoute", "executeModel"}
    \/ SlotDone(rc[c])
    \/ c = AdminCaller /\ Forced(ex, rc[c])

\* the queued continuations run
Resume ==
  /\ Pending
  /\ \E t \in {Turn(ex, rc, Snapshot)} : rc' = t.rc /\ ex' = t.ex
  /\ Queue(dbQueue)
  /\ UNCHANGED << clock, dbVersion, dbFailures, cacheVars, modelConfigCache,
                  lastConfigRefresh, fz, sideVars >>

\* a client calls refreshCache
CallRefreshCache(c) ==
  /\ ~Pending
  /\ rc[c].pc = "idle"
  /\ rc' = [rc EXCEPT ![c] =
              EnterRefreshCache([NoCall EXCEPT !.op = "refreshCache"],
                                lastCacheRefresh)]
  /\ UNCHANGED << clock, dbVersion, cacheVars, execVars >>
  /\ Queue(dbQueue)
  /\ UNCHANGED dbFailures

\* a client calls forceRefreshCache
CallForceRefreshCache(c) ==
  /\ ~Pending
  /\ rc[c].pc = "idle"
  /\ LET f == EnterForceRefreshCache([NoCall EXCEPT !.op = "forceRefreshCache"]) IN
       /\ lastCacheRefresh' = f.last
       /\ rc' = [rc EXCEPT ![c] = f.call]
  /\ UNCHANGED << clock, dbVersion, allNodes, allStacks, allDomains, labelIndex, execVars >>
  /\ Queue(dbQueue)
  /\ UNCHANGED dbFailures

\* a client calls autoRoute
CallAutoRoute(c) ==
  /\ ~Pending
  /\ rc[c].pc = "idle"
  /\ \E aiType \in AITypes, modelSlot \in Slots, prompt \in Prompts, mode \in DeviceModes :
       rc' = [rc EXCEPT ![c] = EnterAutoRoute("autoRoute", aiType, modelSlot,
                                              prompt, mode)]
  /\ UNCHANGED << clock, dbVersion, cacheVars, execVars >>
  /\ Queue(dbQueue)
  /\ UNCHANGED dbFailures

\* a client calls autoRoute with the arguments of the call d in flight
CallAutoRouteAgain(c, d) ==
  /\ ~Pending
  /\ rc[c].pc = "idle"
  /\ rc[d].op = "autoRoute"
  /\ rc' = [rc EXCEPT ![c] = EnterAutoRoute("autoRoute", rc[d].aiType,
                                            rc[d].modelSlot, rc[d].prompt,
                                            rc[d].mode)]
  /\ UNCHANGED << clock, dbVersion, cacheVars, execVars >>
  /\ Queue(dbQueue)
  /\ UNCHANGED dbFailures

\* the nodes query returns: allNodes is assigned and the stacks query issued
NodesQueryOk(c) ==
  /\ ~Pending
  /\ rc[c].pc = "nodesQ" /\ Answers(c)
  /\ allNodes' = OrderByPriorityDesc(NodeTable(dbVersion))
  /\ rc' = [rc EXCEPT ![c].pc = "stacksQ", ![c].reads = 2,
                      ![c].wrote = @ \/ allNodes' # allNodes]
  /\ UNCHANGED << clock, dbVersion, allStacks, allDomains, labelIndex,
                  lastCacheRefresh, execVars >>
  /\ Queue(Tail(dbQueue))
  /\ UNCHANGED dbFailures

\* the stacks query returns: allStacks is assigned and the domains query issued
StacksQueryOk(c) ==
  /\ ~Pending
  /\ rc[c].pc = "stacksQ" /\ Answers(c)
  /\ allStacks' = OrderByPriorityDesc(StackTable(dbVersion))
  /\ rc' = [rc EXCEPT ![c].pc = "domainsQ", ![c].reads = 3,
                      ![c].wrote = @ \/ allStacks' # allStacks]
  /\ UNCHANGED << clock, dbVersion, allNodes, allDomains, labelIndex,
                  lastCacheRefresh, execVars >>
  /\ Queue(Tail(dbQueue))
  /\ UNCHANGED dbFailures

\* the domains query returns: allDomains is assigned, the index rebuilt and
\* lastCacheRefresh set to the time the call started; refreshCache returns
DomainsQueryOk(c) ==
  /\ ~Pending
  /\ rc[c].pc = "domainsQ" /\ Answers(c)
  /\ allDomains' = OrderByPriorityDesc(DomainTable(dbVersion))
  /\ labelIndex' = buildLabelIndex(allNodes, allStacks, allDomains')
  /\ lastCacheRefresh' = rc[c].now
  /\ rc' = [rc EXCEPT ![c].pc = "refreshed", ![c].now = 0,
                      ![c].wrote = @ \/ allDomains' # allDomains
                                     \/ labelIndex' # labelIndex]
  /\ UNCHANGED << clock, dbVersion, allNodes, allStacks, execVars >>
  /\ Queue(Tail(dbQueue))
  /\ UNCHANGED dbFailures

\* a db.execute of refreshCache rejects: the catch block logs and
\* refreshCache returns
QueryFails(c) ==
  /\ ~Pending
  /\ rc[c].pc \in {"nodesQ", "stacksQ", "domainsQ"} /\ Answers(c)
  /\ dbFailures < MaxFailures
  /\ rc' = [rc EXCEPT ![c].pc = "refreshed", ![c].now = 0, ![c].failed = TRUE]
  /\ UNCHANGED << clock, dbVersion, cacheVars, execVars >>
  /\ Queue(Tail(dbQueue))
  /\ dbFailures' = dbFailures + 1

\* the query of getMemories returns its rows; autoRoute returns
MemoriesOk(c) ==
  /\ ~Pending
  /\ rc[c].pc = "memQ" /\ Answers(c)
  /\ rc' = [rc EXCEPT ![c].pc = "routed",
                      ![c].routing.memories =
                         MemoryQuery(dbVersion, rc[c].aiType,
                                     {rc[c].routing.domains[i].id :
                                        i \in 1..Len(rc[c].routing.domains)})]
  /\ UNCHANGED << clock, dbVersion, cacheVars, execVars >>
  /\ Queue(Tail(dbQueue))
  /\ UNCHANGED dbFailures

\* the query of getMemories rejects: its catch block returns []; autoRoute
\* returns
MemoriesFail(c) ==
  /\ ~Pending
  /\ rc[c].pc = "memQ" /\ Answers(c)
  /\ dbFailures < MaxFailures
  /\ rc' = [rc EXCEPT ![c].pc = "routed"]
  /\ UNCHANGED << clock, dbVersion, cacheVars, execVars >>
  /\ Queue(Tail(dbQueue))
  /\ dbFailures' = dbFailures + 1

\* the client takes the result of its call into the auto-router
Return(c) ==
  /\ ~Pending
  /\ rc[c].op \in {"refreshCache", "forceRefreshCache", "autoRoute"}
  /\ rc[c].pc \in {"refreshed", "routed", "threw"}
  /\ ~(c = AdminCaller /\ ex.pc = "forcing")
  /\ rc' = [rc EXCEPT ![c] = NoCall]
  /\ UNCHANGED << clock, dbVersion, cacheVars, execVars >>
  /\ UNCHANGED << dbQueue, dbFailures >>

\* refreshModelConfig up to its await: const now = Date.now(); the TTL guard;
\* the query is issued.  last is the value of lastConfigRefresh it reads.
EnterRefreshModelConfig(e, last) ==
  IF clock - last < CONFIG_CACHE_TTL_MS
    THEN e
    ELSE [e EXCEPT !.pc = "cfgQ", !.now = clock, !.reads = 1]

\* the check of executeAISystem, but passing when some slot is configured
AfterRefreshModelConfigSomeSlot(e, cache) ==
  LET configs == Triple(LAMBDA slot : getModelConfig(cache, e.aiType, slot))
  IN IF \A slot \in Slots : configs[slot] = NullConfig
       THEN [e EXCEPT !.pc = "threw", !.now = 0]
       ELSE [e EXCEPT !.pc = "fanout", !.now = 0, !.configs = configs,
                      !.fanoutTime = clock]

\* executeAISystem after refreshModelConfig, with the config cache as it is
\* then: the three getModelConfig calls and the check
AfterRefreshModelConfig(e, cache) ==
  LET configs == Triple(LAMBDA slot : getModelConfig(cache, e.aiType, slot))
  IN IF \E slot \in Slots : configs[slot] = NullConfig
       THEN [e EXCEPT !.pc = "threw", !.now = 0]
       ELSE [e EXCEPT !.pc = "fanout", !.now = 0, !.configs = configs,
                      !.fanoutTime = clock]

\* executeAISystem after the check of the configurations: each of the three
\* executeModel calls starts and runs up to the first await of refreshCache
FanOut(e) ==
  /\ ex' = e
  /\ rc' = IF e.pc = "fanout"
             THEN Triple(LAMBDA c : EnterAutoRoute("executeModel", e.aiType, c,
                                                   e.prompt, e.mode))
             ELSE rc

\* refreshAllCaches after refreshModelConfig: await forceRefreshCache(), f
\* being what forceRefreshCache does up to its await
Force(e, f) ==
  /\ ex' = [e EXCEPT !.pc = "forcing", !.now = 0]
  /\ rc' = [rc EXCEPT ![AdminCaller] = f.call]
  /\ lastCacheRefresh' = f.last

\* What follows the call of refreshModelConfig in the caller e, cache being
\* the config cache then: nothing while the query is awaited
Continue(e, cache) ==
  IF e.pc = "cfgQ" THEN ex' = e /\ UNCHANGED << rc, lastCacheRefresh >>
  ELSE IF e.op = "executeAISystem"
    THEN FanOut(AfterRefreshModelConfig(e, cache)) /\ UNCHANGED lastCacheRefresh
    ELSE Force(e, EnterForceRefreshCache([NoCall EXCEPT !.op = "forceRefreshCache"]))

\* a client calls executeAISystem
CallExecuteAISystem ==
  /\ ~Pending
  /\ ex.pc = "idle"
  /\ ex.served < MaxRequests
  /\ \A c \in Callers : rc[c].pc = "idle"
  /\ \E aiType \in AITypes, prompt \in {PromptSql}, mode \in {"professional"} :
       Continue(EnterRefreshModelConfig(
                  [NoExec EXCEPT !.served = ex.served + 1, !.logs = ex.logs, !.lost = ex.lost,
                                 !.op = "executeAISystem", !.aiType = aiType,
                                 !.prompt = prompt, !.mode = mode,
                                 !.startTime = clock],
                  lastConfigRefresh),
                modelConfigCache)
  /\ UNCHANGED << clock, dbVersion, allNodes, allStacks, allDomains, labelIndex,
                  modelConfigCache, lastConfigRefresh, fz, sideVars >>
  /\ Queue(dbQueue)
  /\ UNCHANGED dbFailures

\* a client calls refreshAllCaches: lastConfigRefresh = 0; await
\* refreshModelConfig(); await forceRefreshCache()
CallRefreshAllCaches ==
  /\ ~Pending
  /\ ex.pc = "idle"
  /\ ex.served < MaxRequests
  /\ \A c \in Callers : rc[c].pc = "idle"
  /\ lastConfigRefresh' = 0
  /\ Continue(EnterRefreshModelConfig([NoExec EXCEPT !.served = ex.served + 1, !.logs = ex.logs, !.lost = ex.lost,
                                                     !.op = "refreshAllCaches"],
                                      lastConfigRefresh'),
              modelConfigCache)
  /\ UNCHANGED << clock, dbVersion, allNodes, allStacks, allDomains, labelIndex,
                  modelConfigCache, fz, sideVars >>
  /\ Queue(dbQueue)
  /\ UNCHANGED dbFailures

\* the query of refreshModelConfig returns: the cache is cleared and filled
\* and lastConfigRefresh set to the time the call started; the caller runs on
ConfigQueryOk ==
  /\ ~Pending
  /\ ex.pc = "cfgQ" /\ Answers(ConfigCaller)
  /\ modelConfigCache' = LoadModelConfig(dbVersion)
  /\ lastConfigRefresh' = ex.now
  /\ Continue([ex EXCEPT !.pc = "cfgDone"], modelConfigCache')
  /\ UNCHANGED << clock, dbVersion, allNodes, allStacks, allDomains, labelIndex, fz, sideVars >>
  /\ Queue(Tail(dbQueue))
  /\ UNCHANGED dbFailures

\* the query rejects: the catch block logs; the caller runs on
\* as ConfigQueryFails, but the catch block records the time of the attempt
ConfigQueryFailsStartsWindow ==
  /\ ~Pending
  /\ ex.pc = "cfgQ" /\ Answers(ConfigCaller)
  /\ dbFailures < MaxFailures
  /\ Continue([ex EXCEPT !.pc = "cfgDone", !.failed = TRUE], modelConfigCache)
  /\ lastConfigRefresh' = ex.now
  /\ UNCHANGED << clock, dbVersion, allNodes, allStacks, allDomains, labelIndex,
                  modelConfigCache, fz, sideVars >>
  /\ Queue(Tail(dbQueue))
  /\ dbFailures' = dbFailures + 1

ConfigQueryFails ==
  /\ ~Pending
  /\ ex.pc = "cfgQ" /\ Answers(ConfigCaller)
  /\ dbFailures < MaxFailures
  /\ Continue([ex EXCEPT !.pc = "cfgDone", !.failed = TRUE], modelConfigCache)
  /\ UNCHANGED << clock, dbVersion, allNodes, allStacks, allDomains, labelIndex,
                  modelConfigCache, lastConfigRefresh, fz, sideVars >>
  /\ Queue(Tail(dbQueue))
  /\ dbFailures' = dbFailures + 1

\* the answers of the catch blocks of the three wrappers
BrainAIError ==
  << "B", "r", "a", "i", "n", " ", "A", "I", " ", "e", "n", "c", "o", "u",
     "n", "t", "e", "r", "e", "d", " ", "a", "n", " ", "e", "r", "r", "o",
     "r", ".", " ", "P", "l", "e", "a", "s", "e", " ", "t", "r", "y", " ",
     "a", "g", "a", "i", "n", "." >>

HeartAIError ==
  << "/", "/", " ", "H", "e", "a", "r", "t", " ", "A", "I", " ", "e", "r",
     "r", "o", "r", ".", " ", "M", "a", "n", "u", "a", "l", " ", "i", "n",
     "s", "p", "e", "c", "t", "i", "o", "n", " ", "r", "e", "q", "u", "i",
     "r", "e", "d", "." >>

SystemAIError ==
  << "S", "y", "s", "t", "e", "m", " ", "A", "I", " ", "d", "i", "a", "g",
     "n", "o", "s", "t", "i", "c", " ", "f", "a", "i", "l", "e", "d", "." >>

\* the try block of a wrapper once executeAISystem has returned e.result
\* (the per-model metrics of executeBrainAI are left out)
WrapperSuccess(e) ==
  [success |-> TRUE, answer |-> e.result.finalAnswer, mode |-> e.mode,
   raised |-> FALSE,
   metrics |-> [totalTimeMs |-> e.result.totalTimeMs,
                qualityScore |-> e.result.qualityScore,
                totalDomains |-> e.responses[1].routing.totalDomains
                                 + e.responses[2].routing.totalDomains
                                 + e.responses[3].routing.totalDomains]]

\* the catch block of a wrapper, text being its fixed answer
WrapperFailure(e, text) ==
  [success |-> FALSE, answer |-> text, mode |-> e.mode, raised |-> FALSE,
   metrics |-> [totalTimeMs |-> 0, qualityScore |-> Rat(0, 1),
                totalDomains |-> 0]]

\* a wrapper without its catch block
executeWithoutCatch(e) ==
  IF e.pc = "returned" THEN WrapperSuccess(e)
  ELSE [NoAnswer EXCEPT !.mode = e.mode, !.raised = TRUE]

executeBrainAI(e) ==
  IF e.pc = "returned" THEN WrapperSuccess(e)
  ELSE WrapperFailure(e, BrainAIError)

executeHeartAI(e) ==
  IF e.pc = "returned" THEN WrapperSuccess(e)
  ELSE WrapperFailure(e, HeartAIError)

executeSystemAI(e) ==
  IF e.pc = "returned" THEN WrapperSuccess(e)
  ELSE WrapperFailure(e, SystemAIError)

\* the wrapper of the AI type of the request returns to its caller;
\* refreshAllCaches has no wrapper
WrapperAnswer(e) ==
  IF e.op # "executeAISystem" THEN NoAnswer
  ELSE IF e.aiType = "brain" THEN executeBrainAI(e)
  ELSE IF e.aiType = "heart" THEN executeHeartAI(e)
  ELSE executeSystemAI(e)

\* the client takes the result or the exception
ExecReturn ==
  /\ ~Pending
  /\ ex.pc \in {"returned", "threw"}
  /\ ex' = [NoExec EXCEPT !.served = ex.served, !.logs = ex.logs, !.lost = ex.lost,
                          !.answer = WrapperAnswer(ex)]
  /\ UNCHANGED << clock, dbVersion, cacheVars, rc, modelConfigCache,
                  lastConfigRefresh, fz, sideVars >>
  /\ UNCHANGED << dbQueue, dbFailures >>

\* time passes
Tick ==
  /\ ~Pending
  /\ clock < BootTime + MaxTicks * TickMs
  /\ clock' = clock + TickMs
  /\ UNCHANGED << dbVersion, cacheVars, rc, execVars >>
  /\ UNCHANGED << dbQueue, dbFailures >>

\* an administrator changes the tables of the backing store
DbWrite ==
  /\ ~Pending
  /\ dbVersion < MaxDbVersion
  /\ dbVersion' = dbVersion + 1
  /\ UNCHANGED << clock, cacheVars, rc, execVars >>
  /\ UNCHANGED << dbQueue, dbFailures >>

\* ------------------------------------------------------------------------
\* runKnowledgeAlgorithm applied to any three responses
\* ------------------------------------------------------------------------
\* the texts the knowledge algorithms and calculateSimilarity are applied to:
\*   blank: ' \n ' (3 characters)
\*   short: 'All good.' (9 characters)
\*   code: '<backtick><backtick><backtick>const x = 1; import fs<backtick><backtick><backtick> Step 2: we cannot load the module here.' (68 characters)
\*   long: 'System is healthy at 42% load. Memory usage is 1.5gb and normal. You should restart the worker tonight.' (103 characters)
\*   keys: 'Use indexes on foreign keys' (27 characters)
\*   keysSpeed: 'Use indexes on foreign keys for speed' (37 characters)
\*   weather: 'Completely unrelated text about weather' (39 characters)
\*   shout: 'USE INDEXES, not scans!' (23 characters)
\*   small: 'a to of the key in db' (21 characters)
Text ==
  [blank |->
     << " ", "\n", " " >>,
   short |->
     << "A", "l", "l", " ", "g", "o", "o", "d", "." >>,
   code |->
     << "<backtick>", "<backtick>", "<backtick>", "c", "o", "n", "s", "t",
        " ", "x", " ", "=", " ", "1", ";", " ", "i", "m", "p", "o", "r",
        "t", " ", "f", "s", "<backtick>", "<backtick>", "<backtick>", " ",
        "S", "t", "e", "p", " ", "2", ":", " ", "w", "e", " ", "c", "a",
        "n", "n", "o", "t", " ", "l", "o", "a", "d", " ", "t", "h", "e",
        " ", "m", "o", "d", "u", "l", "e", " ", "h", "e", "r", "e", "." >>,
   long |->
     << "S", "y", "s", "t", "e", "m", " ", "i", "s", " ", "h", "e", "a",
        "l", "t", "h", "y", " ", "a", "t", " ", "4", "2", "%", " ", "l",
        "o", "a", "d", ".", " ", "M", "e", "m", "o", "r", "y", " ", "u",
        "s", "a", "g", "e", " ", "i", "s", " ", "1", ".", "5", "g", "b",
        " ", "a", "n", "d", " ", "n", "o", "r", "m", "a", "l", ".", " ",
        "Y", "o", "u", " ", "s", "h", "o", "u", "l", "d", " ", "r", "e",
        "s", "t", "a", "r", "t", " ", "t", "h", "e", " ", "w", "o", "r",
        "k", "e", "r", " ", "t", "o", "n", "i", "g", "h", "t", "." >>,
   keys |->
     << "U", "s", "e", " ", "i", "n", "d", "e", "x", "e", "s", " ", "o",
        "n", " ", "f", "o", "r", "e", "i", "g", "n", " ", "k", "e", "y", "s" >>,
   keysSpeed |->
     << "U", "s", "e", " ", "i", "n", "d", "e", "x", "e", "s", " ", "o",
        "n", " ", "f", "o", "r", "e", "i", "g", "n", " ", "k", "e", "y",
        "s", " ", "f", "o", "r", " ", "s", "p", "e", "e", "d" >>,
   weather |->
     << "C", "o", "m", "p", "l", "e", "t", "e", "l", "y", " ", "u", "n",
        "r", "e", "l", "a", "t", "e", "d", " ", "t", "e", "x", "t", " ",
        "a", "b", "o", "u", "t", " ", "w", "e", "a", "t", "h", "e", "r" >>,
   shout |->
     << "U", "S", "E", " ", "I", "N", "D", "E", "X", "E", "S", ",", " ",
        "n", "o", "t", " ", "s", "c", "a", "n", "s", "!" >>,
   small |->
     << "a", " ", "t", "o", " ", "o", "f", " ", "t", "h", "e", " ", "k",
        "e", "y", " ", "i", "n", " ", "d", "b" >>]


\* what a slot may have answered
FusionAnswers ==
  [response : {<< >>, Text.blank, Text.short, Text.code, Text.long},
   success : BOOLEAN, timeMs : {0, 1000}]

\* the ModelResponse array given to runKnowledgeAlgorithm: slot i at index i
FusionResponses(a1, a2, a3) ==
  LET answers == << a1, a2, a3 >>
  IN [i \in 1..3 |->
        ModelResponse(i, NullConfig, answers[i].response, answers[i].success,
                      answers[i].timeMs, ~answers[i].success,
                      EmptyRouting("professional"))]

NoFusion == [aiType |-> "none", responses |-> << >>, done |-> FALSE, out |-> FusionThrew]

Fuse ==
  /\ ~fz.done
  /\ fz.aiType # "none"
  /\ fz' = [fz EXCEPT !.done = TRUE,
                      !.out = runKnowledgeAlgorithm(fz.aiType, fz.responses)]
  /\ UNCHANGED << clock, dbVersion, cacheVars, rc, modelConfigCache,
                  lastConfigRefresh, ex, sideVars >>
  /\ UNCHANGED << dbQueue, dbFailures >>

\* ------------------------------------------------------------------------
\* scoreByKeywords applied to a keyword list and to the list with one more
\* keyword
\* ------------------------------------------------------------------------
\* the keywords: "sql", "SQL", "index", "api", "", "sqlite" (it includes a
\* word of the prompt) and "ix S" (part of the prompt across two words)
ScoreKeywords ==
  {Term.kwSql, Term.lbSql, Term.kwIndex, Term.kwApi, << >>,
   << "s", "q", "l", "i", "t", "e" >>, << "i", "x", " ", "S" >>}
MaxKeywords == 2

\* the keyword lists of at most MaxKeywords keywords
ScoreKeywordLists ==
  UNION {[1..n -> ScoreKeywords] : n \in 0..MaxKeywords}

NoScoring ==
  [prompt |-> << >>, label |-> << >>, keywords |-> << >>, keyword |-> << >>,
   done |-> FALSE, before |-> 0, after |-> 0]

ApplyScore ==
  /\ ~fz.done
  /\ fz' = [fz EXCEPT !.done = TRUE,
                      !.before = scoreByKeywords(fz.prompt, fz.keywords, fz.label),
                      !.after = scoreByKeywords(fz.prompt,
                                                Append(fz.keywords, fz.keyword),
                                                fz.label)]
  /\ UNCHANGED << clock, dbVersion, cacheVars, rc, modelConfigCache,
                  lastConfigRefresh, ex, sideVars >>
  /\ UNCHANGED << dbQueue, dbFailures >>

\* ------------------------------------------------------------------------
\* migration-orchestrator: install, migrate and cutover of one
\* MigrationOrchestrator.  phase and installationReady are the fields of
\* this.state; install, migrate and cutover tell where the call of that
\* method in flight is; returned is what the last call to return returned;
\* installed, migrated and suspended are history: an install() has
\* returned success, a migrate() has returned success, a suspend_state row
\* has been inserted in the source database.
NoOrchestrator ==
  [phase |-> "idle", installationReady |-> FALSE,
   install |-> "idle", migrate |-> "idle", cutover |-> "idle",
   returned |-> [call |-> "none", success |-> FALSE],
   installed |-> FALSE, migrated |-> FALSE, suspended |-> FALSE]

\* what an awaited step of the installer, of the migration or of the
\* source database does: it succeeds, reports a failure or raises
Outcomes == {"ok", "no", "throws"}

MethodReturns(call, success) == [call |-> call, success |-> success]

\* install() up to its first await
CallInstall ==
  /\ orchestrator.install = "idle"
  /\ orchestrator' = [orchestrator EXCEPT !.phase = "installing",
                                          !.install = "components"]
  /\ UNCHANGED << coreVars, maintenance, comms >>

\* install() returns failure: the phase is 'failed'
InstallFailed(o) ==
  [o EXCEPT !.phase = "failed", !.install = "idle",
            !.returned = MethodReturns("install", FALSE)]

\* installMissingComponents has settled
InstallComponentsDone ==
  /\ orchestrator.install = "components"
  /\ \E outcome \in Outcomes :
       orchestrator' = IF outcome = "ok"
                         THEN [orchestrator EXCEPT !.phase = "verifying",
                                                   !.install = "status"]
                         ELSE InstallFailed(orchestrator)
  /\ UNCHANGED << coreVars, maintenance, comms >>

\* checkInstallationStatus has settled
CheckInstallationDone ==
  /\ orchestrator.install = "status"
  /\ \E outcome \in Outcomes :
       orchestrator' =
         IF outcome = "ok" THEN [orchestrator EXCEPT !.install = "database"]
         ELSE IF outcome = "no"
           THEN InstallFailed([orchestrator EXCEPT !.installationReady = FALSE])
         ELSE InstallFailed(orchestrator)
  /\ UNCHANGED << coreVars, maintenance, comms >>

\* setupDatabase has settled
SetupDatabaseDone ==
  /\ orchestrator.install = "database"
  /\ \E outcome \in Outcomes :
       orchestrator' =
         IF outcome = "ok"
           THEN [orchestrator EXCEPT !.installationReady = TRUE,
                                     !.phase = "idle", !.install = "idle",
                                     !.installed = TRUE,
                                     !.returned = MethodReturns("install", TRUE)]
           ELSE InstallFailed(orchestrator)
  /\ UNCHANGED << coreVars, maintenance, comms >>

\* migrate() up to its first await
CallMigrate ==
  /\ orchestrator.migrate = "idle"
  /\ orchestrator' =
       IF ~orchestrator.installationReady
         THEN [orchestrator EXCEPT !.returned = MethodReturns("migrate", FALSE)]
         ELSE [orchestrator EXCEPT !.phase = "migrating", !.migrate = "running"]
  /\ UNCHANGED << coreVars, maintenance, comms >>

\* runDatabaseMigrations, migrateData and verifyMigration have run to the
\* end, or one of them has raised
MigrateDone ==
  /\ orchestrator.migrate = "running"
  /\ \E outcome \in {"ok", "throws"} :
       orchestrator' =
         IF outcome = "ok"
           THEN [orchestrator EXCEPT !.phase = "completing", !.migrate = "idle",
                                     !.migrated = TRUE,
                                     !.returned = MethodReturns("migrate", TRUE)]
           ELSE [orchestrator EXCEPT !.phase = "failed", !.migrate = "idle",
                                     !.returned = MethodReturns("migrate", FALSE)]
  /\ UNCHANGED << coreVars, maintenance, comms >>

\* cutover() without its test of the phase
CallCutoverNoGuard ==
  /\ orchestrator.cutover = "idle"
  /\ orchestrator' = [orchestrator EXCEPT !.cutover = "insert"]
  /\ UNCHANGED << coreVars, maintenance, comms >>

\* cutover() up to its await
CallCutover ==
  /\ orchestrator.cutover = "idle"
  /\ orchestrator' =
       IF orchestrator.phase # "completing"
         THEN [orchestrator EXCEPT !.returned = MethodReturns("cutover", FALSE)]
         ELSE [orchestrator EXCEPT !.cutover = "insert"]
  /\ UNCHANGED << coreVars, maintenance, comms >>

\* the INSERT INTO suspend_state of cutover() has settled
CutoverDone ==
  /\ orchestrator.cutover = "insert"
  /\ \E outcome \in {"ok", "throws"} :
       orchestrator' =
         IF outcome = "ok"
           THEN [orchestrator EXCEPT !.phase = "done", !.cutover = "idle",
                                     !.suspended = TRUE,
                                     !.returned = MethodReturns("cutover", TRUE)]
           ELSE [orchestrator EXCEPT !.cutover = "idle",
                                     !.returned = MethodReturns("cutover", FALSE)]
  /\ UNCHANGED << coreVars, maintenance, comms >>

\* ------------------------------------------------------------------------
\* unified-maintenance: runMaintenance and checkAndHeal of the one
\* UnifiedMaintenanceSystem.  Callers 1 and 2 are requests to POST
\* /trigger, caller 3 is the auto-heal timer.  currentRun is the caller
\* whose run this.currentRun holds (0: undefined); status is the status of
\* the run of each caller, step the number of cleanup steps its run has
\* done, pc where its call is; refused is history: the last call of the
\* caller threw 'Maintenance already running'.
MaintenanceCallers == {1, 2, 3}

AutoHealCaller == 3

CleanupSteps ==
  << "cleanTempLogs", "cleanCacheFiles", "cleanOldDatabaseRecords",
     "runGarbageCollection" >>

NoMaintenance ==
  [currentRun |-> 0,
   pc |-> [p \in MaintenanceCallers |-> "idle"],
   status |-> [p \in MaintenanceCallers |-> "none"],
   step |-> [p \in MaintenanceCallers |-> 0],
   refused |-> [p \in MaintenanceCallers |-> FALSE]]

\* runMaintenance up to its first await: the test of this.currentRun, then
\* the await of getHealth() inside the literal of the run
EnterRunMaintenance(m, p) ==
  IF m.currentRun # 0 /\ m.status[m.currentRun] = "running"
    THEN [m EXCEPT !.pc[p] = "idle", !.refused[p] = TRUE]
    ELSE [m EXCEPT !.pc[p] = "health", !.refused[p] = FALSE,
                   !.status[p] = "none", !.step[p] = 0]

\* POST /trigger calls runMaintenance
CallRunMaintenance(p) ==
  /\ p # AutoHealCaller
  /\ maintenance.pc[p] = "idle"
  /\ maintenance' = EnterRunMaintenance(maintenance, p)
  /\ UNCHANGED << coreVars, orchestrator, comms >>

\* the timer calls checkAndHeal, which awaits getHealth()
CallCheckAndHeal ==
  /\ maintenance.pc[AutoHealCaller] = "idle"
  /\ maintenance' = [maintenance EXCEPT !.pc[AutoHealCaller] = "check"]
  /\ UNCHANGED << coreVars, orchestrator, comms >>

\* checkAndHeal has the health: it calls runMaintenance when a threshold is
\* exceeded
CheckDone ==
  /\ maintenance.pc[AutoHealCaller] = "check"
  /\ \E exceeded \in BOOLEAN :
       maintenance' = IF exceeded
                        THEN EnterRunMaintenance(maintenance, AutoHealCaller)
                        ELSE [maintenance EXCEPT !.pc[AutoHealCaller] = "idle"]
  /\ UNCHANGED << coreVars, orchestrator, comms >>

\* the getHealth() of the literal has settled: this.currentRun = run, and
\* the first cleanup step is awaited
HealthDone(p) ==
  /\ maintenance.pc[p] = "health"
  /\ \E outcome \in {"ok", "throws"} :
       maintenance' =
         IF outcome = "ok"
           THEN [maintenance EXCEPT !.currentRun = p, !.status[p] = "running",
                                    !.pc[p] = "clean"]
           ELSE [maintenance EXCEPT !.pc[p] = "idle"]
  /\ UNCHANGED << coreVars, orchestrator, comms >>

\* the catch block up to its await of learnFromAutoHeal
RunFailed(m, p) == [m EXCEPT !.status[p] = "failed", !.pc[p] = "learnFailure"]

\* a cleanup step has settled
CleanupDone(p) ==
  /\ maintenance.pc[p] = "clean"
  /\ \E outcome \in {"ok", "throws"} :
       maintenance' =
         IF outcome = "throws" THEN RunFailed(maintenance, p)
         ELSE [maintenance EXCEPT
                 !.step[p] = @ + 1,
                 !.pc[p] = IF maintenance.step[p] + 1 = Len(CleanupSteps)
                             THEN "learn" ELSE "clean"]
  /\ UNCHANGED << coreVars, orchestrator, comms >>

\* the learnFromAutoHeal of the try block has settled
LearnDone(p) ==
  /\ maintenance.pc[p] = "learn"
  /\ \E outcome \in {"ok", "throws"} :
       maintenance' = IF outcome = "throws" THEN RunFailed(maintenance, p)
                      ELSE [maintenance EXCEPT !.pc[p] = "after"]
  /\ UNCHANGED << coreVars, orchestrator, comms >>

\* the finally block: this.currentRun = undefined, and the call returns
Finally(m, p) == [m EXCEPT !.currentRun = 0, !.pc[p] = "idle"]

\* the getHealth() after the cleanup has settled
AfterHealthDone(p) ==
  /\ maintenance.pc[p] = "after"
  /\ \E outcome \in {"ok", "throws"} :
       maintenance' =
         IF outcome = "throws" THEN RunFailed(maintenance, p)
         ELSE Finally([maintenance EXCEPT !.status[p] = "completed"], p)
  /\ UNCHANGED << coreVars, orchestrator, comms >>

\* the learnFromAutoHeal of the catch block has settled
LearnFailureDone(p) ==
  /\ maintenance.pc[p] = "learnFailure"
  /\ maintenance' = Finally(maintenance, p)
  /\ UNCHANGED << coreVars, orchestrator, comms >>

\* ------------------------------------------------------------------------
\* communication-websocket-server: the sockets of /ws/video and of
\* /ws/messages and the two client maps of the one
\* CommunicationWebSocketServer.  A Map is the sequence of its entries in
\* the order of insertion, which is the order its iteration follows.
\* socket is the state of each socket; sent is what the last handler to
\* run has sent, each message with the entry it was sent through (client)
\* and the socket the handler ran for (from); joined is history, the
\* session of the last 'join' of each user; handler is the chat handler in
\* flight for each message socket; saved is the set of ids in the messages
\* table.
VideoSockets == {1, 2}

MessageSockets == {3, 4}

Users == {"alice", "bob"}

Sessions == {"s1", "s2"}

MessageIds == {"m1", "m2"}

NoHandler == [pc |-> "idle", id |-> "none", receiverId |-> "none"]

NoComms ==
  [socket |-> [ws \in VideoSockets \cup MessageSockets |-> "new"],
   videoClients |-> << >>,
   messageClients |-> << >>,
   joined |-> [u \in Users |-> "none"],
   sent |-> {},
   handler |-> [ws \in MessageSockets |-> NoHandler],
   saved |-> {}]

\* Map.prototype.set: the value of a key that is present is replaced in
\* place, a new key is added at the end
ClientsSet(clients, userId, ws) ==
  IF \E i \in 1..Len(clients) : clients[i].userId = userId
    THEN [i \in 1..Len(clients) |->
            IF clients[i].userId = userId
              THEN [userId |-> userId, ws |-> ws] ELSE clients[i]]
    ELSE Append(clients, [userId |-> userId, ws |-> ws])

\* Map.prototype.delete
ClientsDelete(clients, userId) ==
  SelectSeq(clients, LAMBDA c : c.userId # userId)

\* Map.prototype.get: the entries of the key, none or one
ClientsGet(clients, userId) ==
  {clients[i] : i \in {j \in 1..Len(clients) : clients[j].userId = userId}}

\* the first key of the map whose client has the socket, "null" if none
FirstUserOf(clients, ws) ==
  LET hits == {i \in 1..Len(clients) : clients[i].ws = ws}
  IN IF hits = {} THEN "null"
     ELSE clients[CHOOSE i \in hits : \A j \in hits : i <= j].userId

\* getUserIdByWs: the video clients are searched first
getUserIdByWs(c, ws) ==
  IF FirstUserOf(c.videoClients, ws) # "null"
    THEN FirstUserOf(c.videoClients, ws)
    ELSE FirstUserOf(c.messageClients, ws)

\* broadcastToSession: the messages sent, one for each video client but
\* that of excludeUserId
broadcastToSession(clients, sessionId, excludeUserId, from) ==
  {[type |-> "user-joined", to |-> clients[i].ws, client |-> clients[i].userId,
    from |-> from, userId |-> excludeUserId, sessionId |-> sessionId,
    messageId |-> "none"] :
     i \in {j \in 1..Len(clients) : clients[j].userId # excludeUserId}}

\* a client connects to /ws/video or to /ws/messages
Connect(ws) ==
  /\ comms.socket[ws] = "new"
  /\ comms' = [comms EXCEPT !.socket[ws] = "open", !.sent = {}]
  /\ UNCHANGED << coreVars, orchestrator, maintenance >>

\* handleVideoMessage for a 'join' message
VideoJoin(ws, userId, sessionId) ==
  /\ comms.socket[ws] = "open"
  /\ LET clients == ClientsSet(comms.videoClients, userId, ws)
     IN comms' = [comms EXCEPT
                    !.videoClients = clients,
                    !.joined[userId] = sessionId,
                    !.sent = broadcastToSession(clients, sessionId, userId, ws)]
  /\ UNCHANGED << coreVars, orchestrator, maintenance >>

\* handleVideoMessage for an 'offer', 'answer' or 'ice-candidate' message
VideoSignal(ws, targetUserId) ==
  /\ comms.socket[ws] = "open"
  /\ comms' = [comms EXCEPT
                 !.sent = {[type |-> "signal", to |-> c.ws, client |-> c.userId,
                            from |-> ws, userId |-> getUserIdByWs(comms, ws),
                            sessionId |-> "none", messageId |-> "none"] :
                             c \in ClientsGet(comms.videoClients, targetUserId)}]
  /\ UNCHANGED << coreVars, orchestrator, maintenance >>

\* the entry of the first user found for the socket is deleted from the
\* map named
Disconnect(c, ws, map) ==
  LET userId == getUserIdByWs(c, ws)
  IN IF userId = "null" THEN c
     ELSE IF map = "video"
       THEN [c EXCEPT !.videoClients = ClientsDelete(@, userId)]
       ELSE [c EXCEPT !.messageClients = ClientsDelete(@, userId)]

\* a video socket closes: handleVideoDisconnect
VideoClose(ws) ==
  /\ ws \in VideoSockets
  /\ comms.socket[ws] = "open"
  /\ comms' = Disconnect([comms EXCEPT !.socket[ws] = "closed", !.sent = {}],
                         ws, "video")
  /\ UNCHANGED << coreVars, orchestrator, maintenance >>

\* handleChatMessage for a 'subscribe' message, up to the await in
\* sendMessageHistory
Subscribe(ws, userId) ==
  /\ comms.socket[ws] = "open"
  /\ comms.handler[ws].pc = "idle"
  /\ comms' = [comms EXCEPT
                 !.messageClients = ClientsSet(@, userId, ws),
                 !.handler[ws] = [NoHandler EXCEPT !.pc = "history"],
                 !.sent = {}]
  /\ UNCHANGED << coreVars, orchestrator, maintenance >>

\* the query of sendMessageHistory has settled: the history is sent, or
\* the failure is logged
HistoryDone(ws) ==
  /\ comms.handler[ws].pc = "history"
  /\ \E outcome \in {"ok", "throws"} :
       comms' = [comms EXCEPT
                   !.handler[ws] = NoHandler,
                   !.sent = IF outcome = "throws" THEN {}
                            ELSE {[type |-> "messages-history", to |-> ws,
                                   client |-> "none", from |-> ws,
                                   userId |-> "none", sessionId |-> "none",
                                   messageId |-> "none"]}]
  /\ UNCHANGED << coreVars, orchestrator, maintenance >>

\* handleChatMessage for a 'send-message' message, up to the await in
\* saveMessage
SendMessage(ws, id, receiverId) ==
  /\ comms.socket[ws] = "open"
  /\ comms.handler[ws].pc = "idle"
  /\ comms' = [comms EXCEPT
                 !.handler[ws] = [pc |-> "save", id |-> id,
                                  receiverId |-> receiverId],
                 !.sent = {}]
  /\ UNCHANGED << coreVars, orchestrator, maintenance >>

\* what 'send-message' sends once saveMessage has returned: the message to
\* the recipient if online, the confirmation to the sender
AfterSaveMessage(c, ws) ==
  {[type |-> "new-message", to |-> r.ws, client |-> r.userId, from |-> ws,
    userId |-> "none", sessionId |-> "none", messageId |-> c.handler[ws].id] :
     r \in ClientsGet(c.messageClients, c.handler[ws].receiverId)}
  \cup {[type |-> "message-sent", to |-> ws, client |-> "none", from |-> ws,
         userId |-> "none", sessionId |-> "none",
         messageId |-> c.handler[ws].id]}

\* the INSERT of saveMessage has settled; saveMessage returns in both cases
SaveDone(ws) ==
  /\ comms.handler[ws].pc = "save"
  /\ \E outcome \in {"ok", "throws"} :
       comms' = [comms EXCEPT
                   !.saved = IF outcome = "ok" THEN @ \cup {comms.handler[ws].id}
                             ELSE @,
                   !.handler[ws] = NoHandler,
                   !.sent = AfterSaveMessage(comms, ws)]
  /\ UNCHANGED << coreVars, orchestrator, maintenance >>

\* a message socket closes: handleMessageDisconnect
MessageClose(ws) ==
  /\ ws \in MessageSockets
  /\ comms.socket[ws] = "open"
  /\ comms' = Disconnect([comms EXCEPT !.socket[ws] = "closed", !.sent = {}],
                         ws, "messages")
  /\ UNCHANGED << coreVars, orchestrator, maintenance >>

InitProgram ==
  /\ clock = BootTime
  /\ dbVersion = 1
  /\ dbQueue = << >>
  /\ dbFailures = 0
  /\ allNodes = << >>
  /\ allStacks = << >>
  /\ allDomains = << >>
  /\ labelIndex = EmptyIndex
  /\ lastCacheRefresh = 0
  /\ rc = << NoCall, NoCall, NoCall >>
  /\ modelConfigCache = EmptyConfigCache
  /\ lastConfigRefresh = 0
  /\ ex = NoExec
  /\ orchestrator = NoOrchestrator
  /\ maintenance = NoMaintenance
  /\ comms = NoComms

Init ==
  /\ InitProgram
  /\ fz = NoFusion

\* any call of runKnowledgeAlgorithm
InitFusion ==
  /\ InitProgram
  /\ \E aiType \in AITypes \cup {"other"}, a1 \in FusionAnswers, a2 \in FusionAnswers,
        a3 \in FusionAnswers :
       fz = [NoFusion EXCEPT !.aiType = aiType,
                             !.responses = FusionResponses(a1, a2, a3)]

\* The catalog cache under concurrent refreshes: two callers of refreshCache
\* and forceRefreshCache, the clock and the backing store.
Next ==
  \/ \E c \in ExternalCallers : CallRefreshCache(c)
  \/ \E c \in ExternalCallers : CallForceRefreshCache(c)
  \/ \E c \in ExternalCallers : NodesQueryOk(c)
  \/ \E c \in ExternalCallers : StacksQueryOk(c)
  \/ \E c \in ExternalCallers : DomainsQueryOk(c)
  \/ \E c \in ExternalCallers : QueryFails(c)
  \/ \E c \in ExternalCallers : Return(c)
  \/ Tick
  \/ DbWrite

Spec == Init /\ [][Next]_vars

\* The auto-router: one caller routing any request over every snapshot a
\* sequence of (failed or forced) refreshes can leave behind.
NextRoute ==
  \/ CallAutoRoute(1)
  \/ CallForceRefreshCache(1)
  \/ NodesQueryOk(1)
  \/ StacksQueryOk(1)
  \/ DomainsQueryOk(1)
  \/ QueryFails(1)
  \/ MemoriesOk(1)
  \/ MemoriesFail(1)
  \/ Resume
  \/ Return(1)
  \/ DbWrite

SpecRoute == Init /\ [][NextRoute]_vars

\* the database answers a later query before the one at the head of its
\* queue: nothing orders the answers of concurrent db.execute calls
Overtake ==
  /\ ~Pending
  /\ Len(dbQueue) > 1
  /\ dbQueue' = Tail(dbQueue) \o << Head(dbQueue) >>
  /\ UNCHANGED << clock, dbVersion, cacheVars, rc, execVars, dbFailures >>

\* A refreshCache of client 1 and a forceRefreshCache of client 2 run
\* concurrently while time passes and the tables change; the answers of
\* the database arrive in any order.
NextForce ==
  \/ CallRefreshCache(1)
  \/ CallForceRefreshCache(2)
  \/ \E c \in ExternalCallers : NodesQueryOk(c)
  \/ \E c \in ExternalCallers : StacksQueryOk(c)
  \/ \E c \in ExternalCallers : DomainsQueryOk(c)
  \/ \E c \in ExternalCallers : QueryFails(c)
  \/ \E c \in ExternalCallers : Return(c)
  \/ Tick
  \/ DbWrite
  \/ Overtake

SpecForce == Init /\ [][NextForce]_vars

\* Two clients of the auto-router, the second repeating the request of the
\* first while it is in flight or not yet taken; their refreshes interleave
\* and the tables change.
NextRace ==
  \/ /\ CallAutoRoute(1)
     /\ rc'[1].modelSlot = 1 /\ rc'[1].prompt = PromptSql
     /\ rc'[1].mode = "professional"
  \/ CallAutoRouteAgain(2, 1)
  \/ \E c \in ExternalCallers : NodesQueryOk(c)
  \/ \E c \in ExternalCallers : StacksQueryOk(c)
  \/ \E c \in ExternalCallers : DomainsQueryOk(c)
  \/ \E c \in ExternalCallers : QueryFails(c)
  \/ \E c \in ExternalCallers : MemoriesOk(c)
  \/ \E c \in ExternalCallers : MemoriesFail(c)
  \/ Resume
  \/ \E c \in ExternalCallers : Return(c)
  \/ DbWrite

SpecRace == Init /\ [][NextRace]_vars

\* no request is in flight
Quiet == ex.pc = "idle" /\ \A c \in Callers : rc[c].pc = "idle"

\* The orchestration: one executeAISystem or refreshAllCaches call at a time,
\* its three model slots running concurrently; time passes and the tables
\* change between the requests.
NextExec ==
  \/ CallExecuteAISystem
  \/ CallRefreshAllCaches
  \/ ConfigQueryOk
  \/ ConfigQueryFails
  \/ \E c \in Callers : NodesQueryOk(c)
  \/ \E c \in Callers : StacksQueryOk(c)
  \/ \E c \in Callers : DomainsQueryOk(c)
  \/ \E c \in Callers : QueryFails(c)
  \/ \E c \in Callers : MemoriesOk(c)
  \/ \E c \in Callers : MemoriesFail(c)
  \/ Resume
  \/ ExecReturn
  \/ Quiet /\ Tick
  \/ Quiet /\ DbWrite

SpecExec == Init /\ [][NextExec]_vars

\* as LogWriteFails, but the rejection reaches the request in progress
LogWriteFailsRaises ==
  /\ ~Pending
  /\ ex.logs > 0
  /\ dbFailures < MaxFailures
  /\ ex' = [ex EXCEPT !.logs = @ - 1, !.lost = @ + 1,
                      !.pc = IF @ \in {"fanout", "returned"} THEN "threw" ELSE @]
  /\ dbFailures' = dbFailures + 1
  /\ UNCHANGED << clock, dbVersion, dbQueue, cacheVars, rc, modelConfigCache,
                  lastConfigRefresh, fz, sideVars >>

\* the insert of logRoutingDecision or of logResponse is rejected: the
\* catch block of the logger swallows the error
LogWriteFails ==
  /\ ~Pending
  /\ ex.logs > 0
  /\ dbFailures < MaxFailures
  /\ ex' = [ex EXCEPT !.logs = @ - 1, !.lost = @ + 1]
  /\ dbFailures' = dbFailures + 1
  /\ UNCHANGED << clock, dbVersion, dbQueue, cacheVars, rc, modelConfigCache,
                  lastConfigRefresh, fz, sideVars >>

\* the insert of logRoutingDecision or of logResponse is done
LogWriteOk ==
  /\ ~Pending
  /\ ex.logs > 0
  /\ ex' = [ex EXCEPT !.logs = @ - 1]
  /\ UNCHANGED << clock, dbVersion, dbQueue, dbFailures, cacheVars, rc,
                  modelConfigCache, lastConfigRefresh, fz, sideVars >>

\* Requests to executeAISystem with the log writes they leave behind,
\* which are done or rejected at any later time.
NextLog ==
  \/ CallExecuteAISystem
  \/ ConfigQueryOk
  \/ ConfigQueryFails
  \/ \E c \in Callers : NodesQueryOk(c)
  \/ \E c \in Callers : StacksQueryOk(c)
  \/ \E c \in Callers : DomainsQueryOk(c)
  \/ \E c \in Callers : QueryFails(c)
  \/ \E c \in Callers : MemoriesOk(c)
  \/ \E c \in Callers : MemoriesFail(c)
  \/ Resume
  \/ ExecReturn
  \/ LogWriteOk
  \/ LogWriteFails

SpecLog == Init /\ [][NextLog]_vars

\* the database answers or rejects the query at the head of its queue
AnswerQuery ==
  \/ ConfigQueryOk \/ ConfigQueryFails
  \/ \E c \in Callers :
       \/ NodesQueryOk(c) \/ StacksQueryOk(c) \/ DomainsQueryOk(c)
       \/ QueryFails(c) \/ MemoriesOk(c) \/ MemoriesFail(c)

\* AnswerQuery is enabled: a query waits and no continuation is ready
QueryWaits == dbQueue # << >> /\ ~Pending

\* The event loop and the database are weakly fair: a query that waits is
\* answered or rejected in the end, a continuation that is ready runs, and
\* a request that has finished returns to its client. The weak fairness
\* of AnswerQuery and of Resume is written out, with QueryWaits and Pending
\* as their enabling conditions.
SpecExecLive ==
  /\ SpecExec
  /\ ([]<>~QueryWaits \/ []<><<AnswerQuery>>_vars)
  /\ ([]<>~Pending \/ []<><<Resume>>_vars)
  /\ WF_vars(ExecReturn)

\* The knowledge algorithms as functions of their input.
SpecFusion == InitFusion /\ [][Fuse]_vars

\* any call of scoreByKeywords, and the call with one more keyword
InitScore ==
  /\ InitProgram
  /\ \E prompt \in Prompts, label \in {<< >>, Term.lbSql, Term.lbCpu}, keywords \in ScoreKeywordLists,
        keyword \in ScoreKeywords :
       fz = [NoScoring EXCEPT !.prompt = prompt, !.label = label,
                              !.keywords = keywords, !.keyword = keyword]

\* The keyword scorer as a function of its input.
SpecScore == InitScore /\ [][ApplyScore]_vars

\* ------------------------------------------------------------------------
\* Properties
\* ------------------------------------------------------------------------
\* executeAISystem has returned its AISystemResult, has thrown
Returned == ex.op = "executeAISystem" /\ ex.pc = "returned"
Threw == ex.op = "executeAISystem" /\ ex.pc = "threw"

\* C2: an exception raised in a model slot (by the routing or by the prompt
\* building; callAIModel raises none) never reaches the caller of
\* executeAISystem and stops no other slot: when executeAISystem throws, no
\* slot has run; the result it returns carries the three ModelResponses,
\* response K with modelSlot K, and a response made by the catch block of
\* executeModel has success = false, the empty text and the RoutingResult
\* without nodes, stacks, domains and memories.
C2_SlotFailureContained ==
  /\ Threw => \A slot \in Slots : ex.responses[slot] = NoResponse
  /\ Returned =>
       \A slot \in Slots :
         /\ ex.responses[slot].modelSlot = slot
         /\ ex.responses[slot].error =>
              /\ ~ex.responses[slot].success
              /\ ex.responses[slot].response = << >>
              /\ ex.responses[slot].routing = EmptyRouting(ex.mode)
         /\ ~ex.responses[slot].error =>
              /\ ex.responses[slot].success
              /\ ex.responses[slot].response # << >>

\* a result in which the prompt building of one slot raised (the routing had
\* selected a domain whose memory has NULL content) while another slot
\* answered
C2_Witness ==
  /\ Returned
  /\ ex.aiType = "brain"
  /\ ex.responses[2].error
  /\ ~ex.responses[1].error

\* exactly one slot has failed and the two others have answered some text
OneSlotFailed ==
  \E slot \in Slots :
    /\ ~ex.responses[slot].success
    /\ \A other \in Slots \ {slot} :
         ex.responses[other].success /\ ex.responses[other].response # << >>

\* C4: when exactly one slot fails and the two others return success with
\* non-empty text, executeAISystem returns as finalAnswer the text of one of
\* the two others, and a qualityScore above 0.
C4_PartialFailureTolerated ==
  (Returned /\ OneSlotFailed) =>
    /\ \E slot \in Slots :
         /\ ex.responses[slot].success
         /\ ex.result.finalAnswer = ex.responses[slot].response
    /\ ex.result.qualityScore.num > 0

\* such a result of the heart system, whose second slot has failed in the
\* routing
C4_Witness ==
  /\ Returned /\ OneSlotFailed
  /\ ex.aiType = "heart"
  /\ ex.responses[2].error

\* C3: for brain, heart and system, when none of the three ModelResponses is
\* valid (success is false, or the text is empty or whitespace only),
\* runKnowledgeAlgorithm raises nothing and returns qualityScore 0, a
\* non-empty canned answer as fusedAnswer and the three contribution
\* weights 0.
C3_DegradeWithoutValidResponse ==
  (/\ fz.done
   /\ fz.aiType \in AITypes
   /\ \A i \in 1..3 : ~fz.responses[i].success
                        \/ \A k \in 1..Len(fz.responses[i].response) :
                             fz.responses[i].response[k] \in WhiteSpace)
  => /\ ~fz.out.threw
     /\ fz.out.qualityScore.num = 0
     /\ fz.out.fusedAnswer # << >>
     /\ fz.out.fusedAnswer = Canned[fz.aiType]
     /\ \A slot \in Slots : fz.out.contributionWeights[slot].num = 0

\* the system algorithm has run on a failed slot with text, a successful
\* slot with whitespace only and a successful slot without text
C3_Witness ==
  /\ fz.done
  /\ fz.aiType = "system"
  /\ ~fz.responses[1].success /\ fz.responses[1].response = Text.long
  /\ fz.responses[2].success /\ fz.responses[2].response = Text.blank
  /\ fz.responses[3].success /\ fz.responses[3].response = << >>
  /\ fz.out.fusedAnswer = Canned.system

\* the config cache holds a configuration for the slot of the aiType
Configured(aiType, slot) == modelConfigCache[<< aiType, slot >>] # << >>

\* C5: executeAISystem throws only when the ai_model_config table has no
\* row for the requested aiType.
C5_ThrowsOnlyWithoutRows ==
  Threw => \A i \in 1..Len(ConfigTable(dbVersion)) :
             ConfigTable(dbVersion)[i].aiType # ex.aiType

\* C5, amended: executeAISystem throws, before any slot runs, exactly when
\* after its refresh attempt the config cache lacks a configuration for at
\* least one of the three slots of the requested aiType; rows for one or two
\* of the slots do not keep it from throwing.
C5_ThrowsIffSlotUnconfigured ==
  /\ Threw =>
       /\ \E slot \in Slots : ~Configured(ex.aiType, slot)
       /\ \A slot \in Slots : ex.responses[slot] = NoResponse
  /\ (ex.op = "executeAISystem" /\ ex.pc \in {"fanout", "returned"}) =>
       \A slot \in Slots :
         /\ Configured(ex.aiType, slot)
         /\ ex.configs[slot] = getModelConfig(modelConfigCache, ex.aiType, slot)

\* executeAISystem has thrown for heart although the query succeeded and the
\* cache holds the configurations of the slots 1 and 2
C5_Witness ==
  /\ Threw
  /\ ex.aiType = "heart"
  /\ ~ex.failed
  /\ Configured("heart", 1) /\ Configured("heart", 2) /\ ~Configured("heart", 3)

\* C6: a rejected query of refreshModelConfig never makes executeAISystem
\* throw, the first request after start-up included, when the table holds a
\* configuration for each of the three slots of the aiType.
C6_RefreshFailureNeverFails ==
  (/\ Threw
   /\ \A slot \in Slots : LoadModelConfig(dbVersion)[<< ex.aiType, slot >>] # << >>)
  => ~ex.failed

\* C9: forceRefreshCache issues the nodes query of refreshCache whatever
\* lastCacheRefresh holds; refreshAllCaches issues the query of
\* refreshModelConfig whatever lastConfigRefresh holds and, when that query
\* has been answered or rejected, calls forceRefreshCache.
C9_ForcedReload ==
  [][/\ \A c \in Callers :
          (rc[c].pc = "idle" /\ rc'[c].op = "forceRefreshCache")
          => (/\ rc'[c].pc = "nodesQ"
              /\ rc'[c].reads = 1
              /\ dbQueue' # << >> /\ dbQueue'[Len(dbQueue')] = c)
     /\ (ex.pc = "idle" /\ ex'.op = "refreshAllCaches")
          => (/\ ex'.pc = "cfgQ"
              /\ ex'.reads = 1
              /\ dbQueue' = dbQueue \o << ConfigCaller >>)
     /\ (ex.op = "refreshAllCaches" /\ ex.pc = "cfgQ" /\ ex'.pc # "cfgQ")
          => (/\ ex'.pc = "forcing"
              /\ rc'[AdminCaller].op = "forceRefreshCache")]_vars

\* refreshAllCaches is reloading the catalog although both caches were
\* loaded, without a failure, at the time the clock still shows
C9_Witness ==
  /\ ex.op = "refreshAllCaches" /\ ex.pc = "forcing"
  /\ rc[AdminCaller].pc = "nodesQ" /\ rc[AdminCaller].reads = 1
  /\ ex.served = 2
  /\ clock = BootTime
  /\ dbFailures = 0
  /\ labelIndex # EmptyIndex
  /\ lastConfigRefresh = clock

\* the calls whose RoutingResult has been computed
Routed == {c \in Callers : rc[c].pc \in {"memQ", "routed"}}

\* C1: in every mode, an autoRoute call selects at most limits.nodes nodes,
\* at most limits.stacks stacks per selected node and at most limits.domains
\* domains per selected stack, whatever the catalog snapshot holds.
C1_ModeQuota ==
  \A c \in Routed :
    LET r == rc[c].routing
        limits == MODE_LIMITS[rc[c].mode]
    IN /\ limits \in {[nodes |-> 2, stacks |-> 1, domains |-> 1],
                      [nodes |-> 2, stacks |-> 2, domains |-> 2],
                      [nodes |-> 3, stacks |-> 3, domains |-> 3]}
       /\ Len(r.nodes) <= limits.nodes
       /\ Len(r.stacks) <= limits.stacks * Len(r.nodes)
       /\ Len(r.domains) <= limits.domains * Len(r.stacks)

\* an advanced-mode call that had more than three candidate nodes, and more
\* stacks and domains than a node or a stack may contribute
C1_Witness ==
  \E c \in Routed :
    /\ rc[c].mode = "advanced"
    /\ Len(NodeCandidates(Snapshot, rc[c].aiType, rc[c].modelSlot)) > 3
    /\ Len(rc[c].routing.nodes) = 3
    /\ \E n \in 1..3 : Len(MapGet(labelIndex.stacks, rc[c].routing.nodes[n].id)) > 3
    /\ \E s \in 1..Len(rc[c].routing.stacks) :
         Len(MapGet(labelIndex.domains, rc[c].routing.stacks[s].id)) > 3
    /\ Len(rc[c].routing.stacks) > 3
    /\ Len(rc[c].routing.domains) > 3

C8_FailureLeavesSnapshot ==
  \A c \in Callers :
    (rc[c].pc = "refreshed" /\ rc[c].failed) => ~rc[c].wrote

\* the score of a node, in hundredths
NodeScore(n, prompt) == 100 * scoreByKeywords(prompt, n.keywords, n.label) + n.priority

\* the nodes selected for the call c are those of the affinity rule
AffinityWithFallback(c) ==
  LET OfType(n) == n.aiType = rc[c].aiType
      HasAffinity(n) == n.aiType = rc[c].aiType /\ n.modelSlot = rc[c].modelSlot
      affinity == Filter(allNodes, HasAffinity)
      ofType == Filter(allNodes, OfType)
      limit == MODE_LIMITS[rc[c].mode].nodes
      sel == rc[c].routing.nodes
      selIds == {sel[i].id : i \in 1..Len(sel)}
  IN IF Len(affinity) = 0
       THEN /\ Len(sel) = (IF Len(ofType) < limit THEN Len(ofType) ELSE limit)
            /\ \A i \in 1..Len(sel) :
                 \E k \in 1..Len(ofType) :
                   /\ ofType[k].id = sel[i].id
                   /\ sel[i].score = NodeScore(ofType[k], rc[c].prompt)
            /\ \A i, j \in 1..Len(sel) : i < j =>
                 sel[i].score >= sel[j].score /\ sel[i].id # sel[j].id
            /\ \A k \in 1..Len(ofType) :
                 ofType[k].id \notin selIds =>
                   \A i \in 1..Len(sel) :
                     sel[i].score >= NodeScore(ofType[k], rc[c].prompt)
       ELSE \A i \in 1..Len(sel) :
              \E k \in 1..Len(affinity) : affinity[k].id = sel[i].id

\* C10: when no node of allNodes with the requested aiType has affinity for
\* the requested slot, selectNodes returns exactly the top-limit nodes, by
\* descending score, of all the nodes of the aiType; when there is one, only
\* nodes of the aiType with affinity for the slot are selected.
C10_AffinityWithFallback == \A c \in Routed : AffinityWithFallback(c)

\* the index is the one buildLabelIndex makes of the three lists
ConsistentSnapshot == labelIndex = buildLabelIndex(allNodes, allStacks, allDomains)

\* the affinity rule on the snapshots a complete reload leaves, where the
\* index matches the lists
C10_OnConsistentSnapshot ==
  ConsistentSnapshot => \A c \in Routed : AffinityWithFallback(c)

\* the quality the algorithm of the aiType gives a response, in hundredths
VariantQuality(aiType, r) ==
  CASE aiType = "brain" -> calculateResponseQuality(r)
    [] aiType = "heart" -> heartQuality(r)
    [] aiType = "system" -> systemQuality(r)

\* the slots whose response is valid
ValidSlots == {i \in 1..3 : IsValidResponse(fz.responses[i])}

\* runKnowledgeAlgorithm has run for one of the three aiTypes on responses of
\* which one at least is valid
FusedSomeValid == fz.done /\ fz.aiType \in AITypes /\ ValidSlots # {}

\* C11: when at least one response is valid, fusedAnswer is the unmodified
\* text of a valid response whose quality (that of the algorithm of the
\* aiType) is maximal among the valid responses, and selectedPrimary is the
\* slot of that response; a failed or empty response is never selected.
C11_PrimaryIsBestValid ==
  FusedSomeValid =>
    /\ ~fz.out.threw
    /\ fz.out.selectedPrimary \in ValidSlots
    /\ fz.responses[fz.out.selectedPrimary].modelSlot = fz.out.selectedPrimary
    /\ fz.out.fusedAnswer = fz.responses[fz.out.selectedPrimary].response
    /\ \A i \in ValidSlots :
         VariantQuality(fz.aiType, fz.responses[i])
           <= VariantQuality(fz.aiType, fz.responses[fz.out.selectedPrimary])

\* the heart algorithm has chosen the third slot, whose quality is above that
\* of the valid second slot, the first slot having failed with a long text
C11_Witness ==
  /\ FusedSomeValid
  /\ fz.aiType = "heart"
  /\ ValidSlots = {2, 3}
  /\ fz.responses[1].response = Text.long
  /\ fz.out.selectedPrimary = 3
  /\ fz.out.fusedAnswer = Text.code
  /\ heartQuality(fz.responses[2]) < heartQuality(fz.responses[3])

\* the sum of the qualities of the valid responses
TotalQuality ==
  LET q == [i \in 1..3 |-> IF i \in ValidSlots
                             THEN VariantQuality(fz.aiType, fz.responses[i]) ELSE 0]
  IN q[1] + q[2] + q[3]

\* C12: when at least one response is valid, the weight of each valid slot is
\* its quality divided by the sum of the qualities of the valid responses,
\* the weight of each invalid slot is 0 and the three weights sum to 1; the
\* text returned is that of the primary whatever the weights are.
C12_WeightsAreQualityShares ==
  FusedSomeValid =>
    LET w == fz.out.contributionWeights
        sum == RatAdd(w[1], RatAdd(w[2], w[3]))
    IN /\ \A slot \in Slots : w[slot].den > 0
       /\ \A slot \in ValidSlots :
            w[slot].num * TotalQuality
              = VariantQuality(fz.aiType, fz.responses[slot]) * w[slot].den
       /\ \A slot \in Slots \ ValidSlots : w[slot].num = 0
       /\ sum.num = sum.den
       /\ fz.out.fusedAnswer = fz.responses[fz.out.selectedPrimary].response

\* the system algorithm has weighed two valid responses of different
\* quality and an invalid one
C12_Witness ==
  /\ FusedSomeValid
  /\ fz.aiType = "system"
  /\ ValidSlots = {1, 3}
  /\ systemQuality(fz.responses[1]) < systemQuality(fz.responses[3])
  /\ fz.out.contributionWeights[1].num > 0
  /\ RatLess(fz.out.contributionWeights[1], fz.out.contributionWeights[3])
  /\ fz.out.contributionWeights[2].num = 0

\* C13: for a fixed prompt and label, adding a keyword to the keyword list
\* never decreases scoreByKeywords, and adding a keyword that occurs in the
\* prompt as a substring increases it by exactly 2.
C13_ScoreMonotonic ==
  fz.done =>
    /\ fz.after >= fz.before
    /\ Includes(fz.prompt, fz.keyword) => fz.after = fz.before + 2

\* "SQL", which occurs in "Fix SQL indexes!", was added to a list that
\* scored already, with a label that matches
C13_Witness ==
  /\ fz.done
  /\ fz.prompt = PromptSql
  /\ fz.keyword = Term.lbSql
  /\ fz.label = Term.lbSql
  /\ Len(fz.keywords) = MaxKeywords
  /\ fz.before > 5
  /\ fz.after = fz.before + 2


\* calculateSimilarity applied to the pairs 1-2 and 1-3 of three texts
NoSimilarity ==
  [text1 |-> << >>, text2 |-> << >>, text3 |-> << >>, done |-> FALSE,
   sim12 |-> Rat(0, 1), sim13 |-> Rat(0, 1)]

ApplySimilarity ==
  /\ ~fz.done
  /\ fz' = [fz EXCEPT !.done = TRUE,
                      !.sim12 = calculateSimilarity(fz.text1, fz.text2),
                      !.sim13 = calculateSimilarity(fz.text1, fz.text3)]
  /\ UNCHANGED << clock, dbVersion, cacheVars, rc, modelConfigCache,
                  lastConfigRefresh, ex, sideVars >>
  /\ UNCHANGED << dbQueue, dbFailures >>

InitSimilarity ==
  /\ InitProgram
  /\ \E text1, text2, text3 \in
          {<< >>, Text.blank, Text.short, Text.code, Text.long, Text.keys,
           Text.keysSpeed, Text.weather, Text.shout, Text.small} \cup Prompts :
       fz = [NoSimilarity EXCEPT !.text1 = text1, !.text2 = text2,
                                 !.text3 = text3]

SpecSimilarity == InitSimilarity /\ [][ApplySimilarity]_vars

\* the calls c and d were given the same arguments and have read the same
\* snapshot
SameRequest(c, d) ==
  /\ rc[c].aiType = rc[d].aiType /\ rc[c].modelSlot = rc[d].modelSlot
  /\ rc[c].prompt = rc[d].prompt /\ rc[c].mode = rc[d].mode
  /\ rc[c].seen = rc[d].seen

Selecting ==
  \E c \in Callers :
    rc[c].pc = "refreshed" /\ rc[c].op \in {"autoRoute", "executeModel"}

\* C15: under any interleaving of concurrent refreshCache calls, failing
\* ones included, with autoRoute calls, every selection of autoRoute reads
\* lists and indices that come from one completed reload: the index it
\* reads is the one built from the lists it reads.
C15_SelectionReadsOneReload == Selecting => ConsistentSnapshot

\* the same as long as no query has been rejected
C15_WithoutFailure == (Selecting /\ dbFailures = 0) => ConsistentSnapshot

\* C16: in every RoutingResult the number of selected domains is at most the
\* domains limit of the mode: 1 in standard, 2 in professional, 3 in
\* advanced.
C16_DomainsWithinModeLimit ==
  \A c \in Routed :
    Len(rc[c].routing.domains) <= MODE_LIMITS[rc[c].mode].domains

\* the number of the selected domains of r that belong to the stack id
DomainsOfStack(r, id) ==
  Cardinality({i \in 1..Len(r.domains) : r.domains[i].stackId = id})

\* C16, amended: the domains limit of the mode bounds the domains selected
\* per selected stack, not the length of the list: every selected domain
\* belongs to a selected stack, no stack contributes more than the limit,
\* and totalDomains is the length of the list.
C16_DomainsWithinLimitPerStack ==
  \A c \in Routed :
    LET r == rc[c].routing
        limit == MODE_LIMITS[rc[c].mode].domains
    IN /\ \A i \in 1..Len(r.domains) :
            \E k \in 1..Len(r.stacks) : r.stacks[k].id = r.domains[i].stackId
       /\ \A k \in 1..Len(r.stacks) : DomainsOfStack(r, r.stacks[k].id) <= limit
       /\ r.totalDomains = Len(r.domains)

\* a professional routing with more than two domains, two of them from one
\* stack
C16_Witness ==
  \E c \in Routed :
    LET r == rc[c].routing
    IN /\ rc[c].mode = "professional"
       /\ Len(r.domains) > MODE_LIMITS["professional"].domains
       /\ \E k \in 1..Len(r.stacks) : DomainsOfStack(r, r.stacks[k].id) = 2

\* C17: the routing of one model slot selects at most 2 domains in standard
\* mode, at most 4 in professional mode and at most 9 in advanced mode:
\* totalDomains never exceeds the documented budget of the mode.
C17_DocumentedDomainBudget ==
  \A c \in Routed :
    rc[c].routing.totalDomains <=
      CASE rc[c].mode = "standard" -> 2
        [] rc[c].mode = "professional" -> 4
        [] rc[c].mode = "advanced" -> 9

\* position of the item with the given id in a selected list, 0 if absent
Position(selected, id) ==
  IF \E i \in 1..Len(selected) : selected[i].id = id
    THEN CHOOSE i \in 1..Len(selected) : selected[i].id = id
    ELSE 0

\* among the candidates of one ranking, a candidate with a strictly higher
\* keyword score is ranked before one with a lower keyword score: when the
\* lower one is selected, the higher one is selected before it
RankedByKeywords(candidates, selected, prompt, withLabel) ==
  LET KeywordScore(n) ==
        scoreByKeywords(prompt, n.keywords, IF withLabel THEN n.label ELSE << >>)
  IN \A a, b \in 1..Len(candidates) :
       (/\ KeywordScore(candidates[a]) > KeywordScore(candidates[b])
        /\ Position(selected, candidates[b].id) # 0)
       => /\ Position(selected, candidates[a].id) # 0
          /\ Position(selected, candidates[a].id)
               < Position(selected, candidates[b].id)

\* C18: priority is only a tie-break in the ranking of nodes, of the stacks
\* of a node and of the domains of a stack: a candidate with a strictly
\* higher keyword score is ranked before a candidate with a lower keyword
\* score, whatever their priorities.
C18_PriorityOnlyBreaksTies ==
  \A c \in Routed :
    LET r == rc[c].routing
        s == rc[c].seen
    IN /\ RankedByKeywords(NodeCandidates(s, rc[c].aiType, rc[c].modelSlot),
                           r.nodes, rc[c].prompt, TRUE)
       /\ \A n \in 1..Len(r.nodes) :
            RankedByKeywords(MapGet(s.index.stacks, r.nodes[n].id),
                             r.stacks, rc[c].prompt, TRUE)
       /\ \A k \in 1..Len(r.stacks) :
            RankedByKeywords(MapGet(s.index.domains, r.stacks[k].id),
                             r.domains, rc[c].prompt, FALSE)

\* the two texts share a lower-cased word longer than 3 characters
SharesLongWord(text1, text2) ==
  \E w \in SplitNonWord(ToLowerCase(text1)) \cap SplitNonWord(ToLowerCase(text2)) :
    Len(w) > 3

\* C19: the similarity of a pair of texts that share a lower-cased word
\* longer than 3 characters is strictly greater than that of a pair that
\* shares none, which is 0; in particular 'Use indexes on foreign keys'
\* is closer to '... for speed' than to the text about weather.
C19_SimilarityOrdering ==
  fz.done =>
    /\ SharesLongWord(fz.text1, fz.text2) => fz.sim12.num > 0
    /\ ~SharesLongWord(fz.text1, fz.text3) => fz.sim13.num = 0
    /\ (SharesLongWord(fz.text1, fz.text2) /\ ~SharesLongWord(fz.text1, fz.text3))
         => RatLess(fz.sim13, fz.sim12)
    /\ fz.sim12.den > 0 /\ fz.sim13.den > 0

\* the scenario of the three responses: pair 1-2 scores 3/4, pair 1-3
\* scores 0
C19_Witness ==
  /\ fz.done
  /\ fz.text1 = Text.keys /\ fz.text2 = Text.keysSpeed /\ fz.text3 = Text.weather
  /\ SharesLongWord(fz.text1, fz.text2) /\ ~SharesLongWord(fz.text1, fz.text3)
  /\ 4 * fz.sim12.num = 3 * fz.sim12.den
  /\ fz.sim13.num = 0
  /\ RatLess(fz.sim13, fz.sim12)

\* executeAISystem awaits its three slot executions
AwaitingSlots == ex.op = "executeAISystem" /\ ex.pc = "fanout"

\* a step of a request that awaits its slots: either it keeps waiting, and
\* the responses of the slots that have completed stay as they are, or all
\* three slots have completed and the request returns or throws
JoinStep ==
  AwaitingSlots =>
    \/ /\ ex'.pc = "fanout"
       /\ \A slot \in Slots :
            ex.responses[slot] # NoResponse
              => ex'.responses[slot] = ex.responses[slot]
    \/ /\ ex'.pc \in {"returned", "threw"}
       /\ \A slot \in Slots : ex'.responses[slot] # NoResponse
       /\ \A slot \in Slots : ex'.responses[slot].modelSlot = slot

\* C20: executeAISystem returns only after all three slot executions have
\* completed; while a slot is still awaiting an answer the request stays
\* pending, the slots that have completed keep their responses, and nothing
\* but the completion of all three ends the wait; if every call awaited is
\* answered or rejected in the end, executeAISystem returns or throws in
\* the end.
C20_JoinAll ==
  /\ [][JoinStep]_vars
  /\ AwaitingSlots ~> (Returned \/ Threw)

\* two slots have completed and the third still awaits its memories query:
\* the request is pending
C20_Witness ==
  /\ AwaitingSlots
  /\ \E slot \in Slots :
       /\ rc[slot].pc = "memQ"
       /\ ex.responses[slot] = NoResponse
       /\ \A other \in Slots \ {slot} :
            /\ rc[other].pc = "idle"
            /\ ex.responses[other] # NoResponse
            /\ ex.responses[other].modelSlot = other

\* the selected nodes of r under which the snapshot s indexes the stack of
\* the given id, as a set of positions in the selected nodes
OwnersOf(r, s, stackId) ==
  {n \in 1..Len(r.nodes) :
     LET children == MapGet(s.index.stacks, r.nodes[n].id)
     IN \E i \in 1..Len(children) :
          children[i].id = stackId /\ children[i].nodeId = r.nodes[n].id}

\* C27: in every RoutingResult each selected stack is a child of one of the
\* selected nodes, each selected domain is a child of one of the selected
\* stacks, and the stackLabel and nodeLabel of the domain are the labels of
\* that stack and of the selected node that owns it; nodeLabel is never
\* empty.
C27_HierarchyContainment ==
  \A c \in Routed :
    LET r == rc[c].routing
        s == rc[c].seen
    IN /\ \A k \in 1..Len(r.stacks) : OwnersOf(r, s, r.stacks[k].id) # {}
       /\ \A i \in 1..Len(r.domains) :
            \E k \in 1..Len(r.stacks) :
              /\ r.stacks[k].id = r.domains[i].stackId
              /\ r.domains[i].stackLabel = r.stacks[k].label
              /\ r.domains[i].nodeLabel # << >>
              /\ \E n \in OwnersOf(r, s, r.stacks[k].id) :
                   r.domains[i].nodeLabel = r.nodes[n].label

\* C28: a failed refresh starts no TTL window. The step in which the catch
\* block of refreshCache or of refreshModelConfig runs leaves the
\* last-refresh timestamp (and the cached configuration) as it was; a call
\* that arrives while the timestamp is still 0 after a rejected query
\* issues the query again, whatever the time; and the reload that succeeds
\* stores what the table holds and the start time of that reload.
C28_FailureStartsNoWindow ==
  [][/\ \A c \in Callers :
          (~rc[c].failed /\ rc'[c].failed)
          => lastCacheRefresh' = lastCacheRefresh
     /\ (~ex.failed /\ ex'.failed)
          => (/\ lastConfigRefresh' = lastConfigRefresh
              /\ modelConfigCache' = modelConfigCache)
     /\ (ex.pc = "idle" /\ ex'.pc # "idle" /\ dbFailures > 0
          /\ lastConfigRefresh = 0)
          => (ex'.pc = "cfgQ" /\ ex'.reads = 1
              /\ dbQueue' = dbQueue \o << ConfigCaller >>)
     /\ \A c \in Callers :
          (rc[c].pc = "idle" /\ rc'[c].pc # "idle" /\ dbFailures > 0
           /\ lastCacheRefresh' = 0)
          => (rc'[c].pc = "nodesQ" /\ rc'[c].reads = 1)
     /\ (ex.pc = "cfgQ" /\ ex'.pc # "cfgQ" /\ ~ex'.failed)
          => (/\ modelConfigCache' = LoadModelConfig(dbVersion)
              /\ lastConfigRefresh' = ex.now /\ ex.now = clock)
     /\ \A c \in Callers :
          (rc[c].pc = "domainsQ" /\ rc'[c].pc = "refreshed" /\ ~rc'[c].failed)
          => (/\ lastCacheRefresh' = rc[c].now
              /\ allDomains' = OrderByPriorityDesc(DomainTable(dbVersion)))]_vars

\* the second request arrives at the time of the first, whose configuration
\* query was rejected: it has issued the query again, the configuration is
\* loaded and the window starts now
C28_Witness ==
  /\ ex.op = "executeAISystem" /\ ex.pc = "fanout"
  /\ ex.served = 2 /\ ex.reads = 1 /\ ~ex.failed
  /\ dbFailures = 1
  /\ clock = BootTime /\ lastConfigRefresh = clock
  /\ modelConfigCache = LoadModelConfig(dbVersion)
  /\ lastCacheRefresh = 0
  /\ \A c \in Slots : rc[c].pc = "nodesQ"

\* a forced refresh of the client c has completed a successful reload
ForcedReloadDone(c) ==
  rc[c].op = "forceRefreshCache" /\ rc[c].pc = "refreshed" /\ ~rc[c].failed

\* C29: once a forced refresh has completed a successful reload, no
\* refreshCache that started before it assigns the lists of the snapshot
\* any more, and lastCacheRefresh does not move backwards unless a new
\* forced refresh resets it.
C29_ForcedReloadNotUndone ==
  [][(\E f \in Callers : ForcedReloadDone(f))
      => /\ \/ lastCacheRefresh' >= lastCacheRefresh
            \/ \E c \in Callers :
                 rc[c].pc = "idle" /\ rc'[c].op = "forceRefreshCache"
         /\ \A c \in Callers :
              (/\ rc[c].pc \in {"nodesQ", "stacksQ", "domainsQ"}
               /\ rc[c].now < lastCacheRefresh)
              => (rc'[c].pc = rc[c].pc \/ rc'[c].failed)]_vars

\* C21: audit logging is best-effort and does not block. A log write that
\* is done or rejected changes nothing but the number of writes in
\* flight: not the responses, not the result, not the state of the
\* request, which never throws because of it. The request returns its
\* result in the step that issues the response log, and hands it to the
\* client whatever number of log writes is still in flight. The result
\* returned is the one the knowledge algorithm gives for the responses.
C21_LoggingBestEffort ==
  [][/\ (ex'.logs < ex.logs)
          => (/\ ex' = [ex EXCEPT !.logs = ex.logs - 1, !.lost = ex'.lost]
              /\ rc' = rc /\ dbQueue' = dbQueue
              /\ Snapshot' = Snapshot /\ modelConfigCache' = modelConfigCache)
     /\ (ex.pc = "fanout" /\ ex'.pc = "returned")
          => (/\ ex'.logs > ex.logs
              /\ ex'.result.finalAnswer
                   = runKnowledgeAlgorithm(ex'.aiType, ex'.responses).fusedAnswer)
     /\ (ex.pc = "returned" /\ ex'.pc = "idle") => ex'.logs = ex.logs]_vars

\* the request has returned its result although the routing log of one
\* slot was rejected and three log writes are still in flight
C21_Witness ==
  /\ Returned
  /\ ex.served = 1
  /\ ex.lost = 1
  /\ ex.logs = 3
  /\ \A slot \in Slots : ex.responses[slot].success
  /\ ex.result.finalAnswer # << >>

\* C22: the public wrappers always return an answer object and never
\* throw. When executeAISystem has thrown, the wrapper returns success =
\* false, its fixed answer, zero metrics and the mode of the request; when
\* it has returned, the wrapper returns success = true with the fused
\* answer, the quality score and the mode of the request.
C22_WrappersNeverThrow ==
  [][(ex.op = "executeAISystem" /\ ex.pc \in {"returned", "threw"}
        /\ ex'.pc = "idle")
       => /\ ~ex'.answer.raised
          /\ ex'.answer.mode = ex.mode
          /\ ex.pc = "threw"
               => /\ ~ex'.answer.success
                  /\ ex'.answer.answer
                       \in {BrainAIError, HeartAIError, SystemAIError}
                  /\ ex'.answer.metrics
                       = [totalTimeMs |-> 0, qualityScore |-> Rat(0, 1),
                          totalDomains |-> 0]
          /\ ex.pc = "returned"
               => /\ ex'.answer.success
                  /\ ex'.answer.answer = ex.result.finalAnswer
                  /\ ex'.answer.metrics.qualityScore = ex.result.qualityScore]_vars

\* a wrapper has returned the answer of its catch block
C22_Witness ==
  /\ ex.pc = "idle"
  /\ ex.served >= 1
  /\ ~ex.answer.success
  /\ ~ex.answer.raised
  /\ ex.answer.mode = "professional"
  /\ ex.answer.answer = HeartAIError

\* ------------------------------------------------------------------------
\* the migration orchestrator alone
NextMigration ==
  \/ CallInstall
  \/ InstallComponentsDone
  \/ CheckInstallationDone
  \/ SetupDatabaseDone
  \/ CallMigrate
  \/ MigrateDone
  \/ CallCutover
  \/ CutoverDone

SpecMigration == Init /\ [][NextMigration]_vars

\* C23: the migration workflow is ordered install, migrate, cutover. A
\* migrate() called while installationReady is false changes nothing and
\* returns failure, and installationReady becomes true only when an
\* install() returns success. A cutover() called in a phase other than
\* 'completing' changes nothing and returns failure, and only a migrate()
\* that returns success sets the phase 'completing'. The suspend_state
\* row is inserted and the phase 'done' set only by a cutover() that
\* returns success, after a migrate() has returned success.
C23_InstallMigrateCutover ==
  [][/\ (CallMigrate /\ ~orchestrator.installationReady)
          => orchestrator'
               = [orchestrator EXCEPT !.returned = MethodReturns("migrate", FALSE)]
     /\ (CallCutover /\ orchestrator.phase # "completing")
          => orchestrator'
               = [orchestrator EXCEPT !.returned = MethodReturns("cutover", FALSE)]
     /\ (orchestrator'.installationReady /\ ~orchestrator.installationReady)
          => (/\ orchestrator.install = "database"
              /\ orchestrator'.returned = MethodReturns("install", TRUE))
     /\ (orchestrator'.phase = "completing" /\ orchestrator.phase # "completing")
          => (/\ orchestrator.migrate = "running"
              /\ orchestrator.installed
              /\ orchestrator'.returned = MethodReturns("migrate", TRUE))
     /\ (\/ orchestrator'.suspended /\ ~orchestrator.suspended
         \/ orchestrator'.phase = "done" /\ orchestrator.phase # "done")
          => (/\ orchestrator.cutover = "insert"
              /\ orchestrator.migrated
              /\ orchestrator'.suspended
              /\ orchestrator'.phase = "done"
              /\ orchestrator'.returned = MethodReturns("cutover", TRUE))
     /\ orchestrator.suspended => orchestrator.migrated
     /\ orchestrator.migrated => orchestrator.installed]_vars

\* the source server has been suspended by a cutover() after an install()
\* and a migrate() that succeeded
C23_Witness ==
  /\ orchestrator.phase = "done"
  /\ orchestrator.suspended
  /\ orchestrator.migrated
  /\ orchestrator.installed
  /\ orchestrator.returned = MethodReturns("cutover", TRUE)

\* ------------------------------------------------------------------------
\* the maintenance system alone
NextMaintenance ==
  \/ \E p \in MaintenanceCallers :
       \/ CallRunMaintenance(p)
       \/ HealthDone(p)
       \/ CleanupDone(p)
       \/ LearnDone(p)
       \/ AfterHealthDone(p)
       \/ LearnFailureDone(p)
  \/ CallCheckAndHeal
  \/ CheckDone

SpecMaintenance == Init /\ [][NextMaintenance]_vars

\* the run of p is between its first cleanup step and its last await
Cleaning(p) == maintenance.pc[p] \in {"clean", "learn", "after"}

\* C24: at most one maintenance run is in progress at any time: a
\* runMaintenance call made while another run has not finished throws and
\* does no cleanup step, so that never two callers are doing the cleanup
\* steps of a run at once, whether they are two requests to POST /trigger
\* or a request and the auto-heal check.
C24_OneMaintenanceRun ==
  Cardinality({p \in MaintenanceCallers : Cleaning(p)}) <= 1

\* ------------------------------------------------------------------------
\* the video sockets alone
NextVideo ==
  \/ \E ws \in VideoSockets :
       \/ Connect(ws)
       \/ VideoClose(ws)
       \/ \E userId \in Users :
            \/ VideoSignal(ws, userId)
            \/ \E sessionId \in Sessions : VideoJoin(ws, userId, sessionId)

SpecVideo == Init /\ [][NextVideo]_vars

\* the message sockets alone
NextMessages ==
  \/ \E ws \in MessageSockets :
       \/ Connect(ws)
       \/ MessageClose(ws)
       \/ HistoryDone(ws)
       \/ SaveDone(ws)
       \/ \E userId \in Users :
            \/ Subscribe(ws, userId)
            \/ \E id \in MessageIds : SendMessage(ws, id, userId)

SpecMessages == Init /\ [][NextMessages]_vars

\* C25: on a video 'join', 'user-joined' is sent only to the other
\* participants of the same session: never to the socket of the user who
\* joins, never through the entry of that user, and never to a client
\* whose own join named another session.
C25_JoinNotifiesSessionOnly ==
  \A m \in comms.sent :
    m.type = "user-joined"
      => /\ m.client # m.userId
         /\ m.to # m.from
         /\ comms.joined[m.client] = m.sessionId

\* C26: the sender gets 'message-sent' only for a message that has been
\* saved to the messages table.
C26_ConfirmedOnlyIfSaved ==
  \A m \in comms.sent :
    m.type = "message-sent" => m.messageId \in comms.saved

\* C30: once a socket has closed no entry of videoClients or of
\* messageClients refers to it, and nothing is sent to it.
C30_NoClosedSocketInMaps ==
  /\ \A i \in 1..Len(comms.videoClients) :
       comms.socket[comms.videoClients[i].ws] # "closed"
  /\ \A i \in 1..Len(comms.messageClients) :
       comms.socket[comms.messageClients[i].ws] # "closed"
  /\ \A m \in comms.sent : comms.socket[m.to] # "closed"

====
